---------------------------- MODULE Spec2Model ----------------------------
(***************************************************************************)
(* Model of the cache subsystem of so68/base-core: the in-process engine   *)
(* (MemoryCache, package cache, held in src/config/app.go from line 180)   *)
(* and the remote engine (RedisCache, src/cache/redis.go).                 *)
(*                                                                         *)
(* Go strings are sequences of one-character strings, so that formatting   *)
(* and parsing are computed and not assumed.  time.Time is an integer; the *)
(* zero time.Time is ZeroTime and the clock starts after it.               *)
(***************************************************************************)
EXTENDS Integers, Sequences, FiniteSets, TLC

(***************************************************************************)
(* Bounds of the model.                                                    *)
(***************************************************************************)
\* number of clock ticks after the start time
MaxTicks == 2
\* number of facade calls in one behaviour of the sequential specifications
MaxCalls == 3
\* number of threads of the concurrent specifications
NThreads == 3

Keys == {"k1", "k2"}
Fields == {"f1"}

\* time.Time{} (the zero value of cacheItem.expiration) and time.Now() at start
ZeroTime == 0
StartTime == ZeroTime + 2
Times == StartTime .. (StartTime + MaxTicks)

(***************************************************************************)
(* Text: strconv / fmt formatting and integer parsing.                     *)
(***************************************************************************)
DigitChars == <<"0", "1", "2", "3", "4", "5", "6", "7", "8", "9">>

DigitOf(c) == CHOOSE d \in 0..9 : DigitChars[d + 1] = c

IsDigit(c) == \E d \in 0..9 : DigitChars[d + 1] = c

RECURSIVE UDec(_)
UDec(n) == IF n < 10 THEN <<DigitChars[n + 1]>>
           ELSE UDec(n \div 10) \o <<DigitChars[(n % 10) + 1]>>

\* fmt.Sprintf("%v" / "%d", n) of an integer
FormatInt(n) == IF n < 0 THEN <<"-">> \o UDec(-n) ELSE UDec(n)

RECURSIVE UParse(_)
UParse(s) == IF Len(s) = 0 THEN 0
             ELSE 10 * UParse(SubSeq(s, 1, Len(s) - 1)) + DigitOf(s[Len(s)])

AllDigits(s) == Len(s) > 0 /\ \A i \in 1..Len(s) : IsDigit(s[i])

\* the canonical decimal integers the remote store accepts for INCRBY:
\* no sign but "-", no leading zero, no "-0"
IsIntText(s) ==
    \/ s = <<"0">>
    \/ AllDigits(s) /\ s[1] # "0"
    \/ Len(s) > 1 /\ s[1] = "-" /\ AllDigits(Tail(s)) /\ s[2] # "0"

ParseInt(s) == IF s[1] = "-" THEN -UParse(Tail(s)) ELSE UParse(s)

(***************************************************************************)
(* Values: Go's interface{} as a tagged variant, the tag being the dynamic *)
(* type.  A float64 is held as a number of halves (5 is 2.5).              *)
(***************************************************************************)
GoString(s) == [t |-> "string", v |-> s]
GoInt(n) == [t |-> "int", v |-> n]
GoInt64(n) == [t |-> "int64", v |-> n]
GoFloat64(h) == [t |-> "float64", v |-> h]
GoBool(b) == [t |-> "bool", v |-> b]
GoHash(h) == [t |-> "map[string]interface{}", v |-> h]
GoList(l) == [t |-> "[]interface{}", v |-> l]
GoSet(s) == [t |-> "map[interface{}]bool", v |-> s]
Nil == [t |-> "nil"]

\* int64(f) of a float64: truncation toward zero
TruncFloat(h) == IF h >= 0 THEN h \div 2 ELSE -((-h) \div 2)

\* fmt.Sprintf("%v", f) of a float64 that is a whole number of halves
FormatFloat(h) ==
    IF h % 2 = 0 THEN FormatInt(h \div 2)
    ELSE (IF h < 0 THEN <<"-">> ELSE <<>>)
         \o UDec((IF h < 0 THEN -h ELSE h) \div 2) \o <<".", "5">>

FormatBool(b) == IF b THEN <<"t", "r", "u", "e">> ELSE <<"f", "a", "l", "s", "e">>

\* the members and fields in the order fmt prints map keys (sorted)
ElemOrder == <<GoInt(7), GoString(<<"x">>)>>
FieldOrder == <<"f1", "f2">>

SprintScalar(val) ==
    CASE val.t = "string" -> val.v
      [] val.t \in {"int", "int64"} -> FormatInt(val.v)
      [] val.t = "float64" -> FormatFloat(val.v)
      [] val.t = "bool" -> FormatBool(val.v)
      [] OTHER -> <<"?">>

RECURSIVE JoinList(_)
JoinList(l) == IF Len(l) = 0 THEN <<>>
               ELSE IF Len(l) = 1 THEN SprintScalar(l[1])
               ELSE SprintScalar(l[1]) \o <<" ">> \o JoinList(Tail(l))

RECURSIVE JoinHash(_, _)
JoinHash(h, i) ==
    IF i > Len(FieldOrder) THEN <<>>
    ELSE IF FieldOrder[i] \in DOMAIN h
         THEN <<FieldOrder[i], ":">> \o SprintScalar(h[FieldOrder[i]])
              \o (IF \E j \in (i + 1)..Len(FieldOrder) : FieldOrder[j] \in DOMAIN h
                  THEN <<" ">> ELSE <<>>)
              \o JoinHash(h, i + 1)
         ELSE JoinHash(h, i + 1)

RECURSIVE JoinSet(_, _)
JoinSet(s, i) ==
    IF i > Len(ElemOrder) THEN <<>>
    ELSE IF ElemOrder[i] \in s
         THEN SprintScalar(ElemOrder[i]) \o <<":">> \o FormatBool(TRUE)
              \o (IF \E j \in (i + 1)..Len(ElemOrder) : ElemOrder[j] \in s
                  THEN <<" ">> ELSE <<>>)
              \o JoinSet(s, i + 1)
         ELSE JoinSet(s, i + 1)

\* the text form the engine returns: a string as it is, else fmt.Sprintf("%v", v)
Sprint(val) ==
    CASE val.t = "[]interface{}" -> <<"[">> \o JoinList(val.v) \o <<"]">>
      [] val.t = "map[string]interface{}" -> <<"map[">> \o JoinHash(val.v, 1) \o <<"]">>
      [] val.t = "map[interface{}]bool" -> <<"map[">> \o JoinSet(val.v, 1) \o <<"]">>
      [] OTHER -> SprintScalar(val)

(***************************************************************************)
(* The in-process engine's table: Go maps are functions on the keys they   *)
(* hold.                                                                   *)
(***************************************************************************)
EmptyMap == [x \in {} |-> Nil]

MapPut(m, k, x) == [y \in (DOMAIN m) \cup {k} |-> IF y = k THEN x ELSE m[y]]

MapDelete(m, k) == [y \in (DOMAIN m) \ {k} |-> m[y]]

\* cacheItem
Item(val, exp) == [value |-> val, expiration |-> exp]

\* an expiry test that is not strict
ExpiredInclusive(item, t) == item.expiration # ZeroTime /\ t >= item.expiration

\* !item.expiration.IsZero() && time.Now().After(item.expiration)
Expired(item, t) == item.expiration # ZeroTime /\ t > item.expiration

\* an entry a caller can see at time t
Live(d, k, t) == k \in DOMAIN d /\ ~Expired(d[k], t)

\* the error results, by the text of the error the code builds
OK == "nil"
ErrKeyNotFound == "key not found"
ErrFieldNotFound == "field not found"
ErrNotNumeric == "cannot increment non-numeric value"
ErrNotHash == "key is not a hash"
ErrNotList == "key is not a list"
ErrNotSet == "key is not a set"
ErrListEmpty == "list is empty"

Result(d, r, e) == [data |-> d, ret |-> r, err |-> e]

\* Lookup without the expiry check
LookupNoExpiry(d, k, t) == [found |-> k \in DOMAIN d, data |-> d]

\* what every handler does first: look the key up, drop it when it is expired
Lookup(d, k, t) ==
    IF k \notin DOMAIN d THEN [found |-> FALSE, data |-> d]
    ELSE IF Expired(d[k], t) THEN [found |-> FALSE, data |-> MapDelete(d, k)]
    ELSE [found |-> TRUE, data |-> d]

(***************************************************************************)
(* Scalar operations.                                                      *)
(***************************************************************************)
GetOp(d, k, t) ==
    LET l == Lookup(d, k, t) IN
    IF ~l.found THEN Result(l.data, <<>>, ErrKeyNotFound)
    ELSE Result(d, Sprint(d[k].value), OK)

\* Set that keeps the entry of a key that has one
SetOpKeepExisting(d, k, val, ttl, t) ==
    IF k \in DOMAIN d THEN Result(d, Nil, OK)
    ELSE Result(MapPut(d, k, Item(val, IF ttl > 0 THEN t + ttl ELSE ZeroTime)), Nil, OK)

\* expiration > 0 sets now + expiration, else the zero time is kept
SetOp(d, k, val, ttl, t) ==
    Result(MapPut(d, k, Item(val, IF ttl > 0 THEN t + ttl ELSE ZeroTime)), Nil, OK)

\* Delete that reports a key it does not find
DeleteOpStrict(d, k) ==
    IF k \in DOMAIN d THEN Result(MapDelete(d, k), Nil, OK) ELSE Result(d, Nil, ErrKeyNotFound)

DeleteOp(d, k) == Result(MapDelete(d, k), Nil, OK)

ExistsOp(d, k, t) ==
    LET l == Lookup(d, k, t) IN Result(l.data, l.found, OK)

(***************************************************************************)
(* Batch operations.  MGet reads the clock once per key: ts[i] is the time *)
(* read for keys ks[i].                                                    *)
(***************************************************************************)
RECURSIVE MGetFrom(_, _, _, _)
MGetFrom(d, ks, ts, i) ==
    IF i > Len(ks) THEN Result(d, <<>>, OK)
    ELSE LET l == Lookup(d, ks[i], ts[i])
             rest == MGetFrom(l.data, ks, ts, i + 1)
         IN Result(rest.data,
                   <<IF l.found THEN d[ks[i]].value ELSE Nil>> \o rest.ret,
                   OK)

\* MGet that fills values from its end
MGetOpReversed(d, ks, ts) ==
    LET r == MGetFrom(d, ks, ts, 1) IN
    Result(r.data, [i \in 1..Len(r.ret) |-> r.ret[Len(r.ret) + 1 - i]], OK)

MGetOp(d, ks, ts) == MGetFrom(d, ks, ts, 1)

\* one clock read, the same expiration for every pair
MSetOp(d, pairs, ttl, t) ==
    Result([k \in (DOMAIN d) \cup (DOMAIN pairs) |->
               IF k \in DOMAIN pairs
               THEN Item(pairs[k], IF ttl > 0 THEN t + ttl ELSE ZeroTime)
               ELSE d[k]],
           Nil, OK)

MDeleteOp(d, ks) == Result([k \in (DOMAIN d) \ ks |-> d[k]], Nil, OK)

(***************************************************************************)
(* Counters.  The values of the model stay far inside int64, so the        *)
(* addition never wraps.                                                   *)
(***************************************************************************)
\* Increment that drops an entry it cannot count from
IncrementOpDropping(d, k, delta, t) ==
    LET l == Lookup(d, k, t)
        fresh == Result(MapPut(l.data, k, Item(GoInt64(delta), ZeroTime)), delta, OK)
    IN
    IF ~l.found THEN fresh
    ELSE LET val == d[k].value IN
         IF val.t \in {"int", "int64", "float64"}
         THEN LET current == IF val.t = "float64" THEN TruncFloat(val.v) ELSE val.v
                  newValue == current + delta
              IN Result(MapPut(d, k, Item(GoInt64(newValue), ZeroTime)), newValue, OK)
         ELSE Result(MapDelete(d, k), 0, ErrNotNumeric)

IncrementOp(d, k, delta, t) ==
    LET l == Lookup(d, k, t)
        fresh == Result(MapPut(l.data, k, Item(GoInt64(delta), ZeroTime)), delta, OK)
    IN
    IF ~l.found THEN fresh
    ELSE LET val == d[k].value IN
         IF val.t \in {"int", "int64", "float64"}
         THEN LET current == IF val.t = "float64" THEN TruncFloat(val.v) ELSE val.v
                  newValue == current + delta
              IN Result(MapPut(d, k, Item(GoInt64(newValue), ZeroTime)), newValue, OK)
         ELSE Result(d, 0, ErrNotNumeric)

\* Decrement that does not negate delta
DecrementOpNoNegate(d, k, delta, t) == IncrementOp(d, k, delta, t)

DecrementOp(d, k, delta, t) == IncrementOp(d, k, -delta, t)

(***************************************************************************)
(* Expiry.  Expire and TTL read the clock twice: t1 for the expiry check,  *)
(* t2 for the new expiration (Expire) or the remaining time (TTL).         *)
(***************************************************************************)
ExpireOp(d, k, ttl, t1, t2) ==
    LET l == Lookup(d, k, t1) IN
    IF ~l.found THEN Result(l.data, Nil, ErrKeyNotFound)
    ELSE Result(MapPut(d, k, Item(d[k].value, t2 + ttl)), Nil, OK)

\* TTL that returns the time since the expiration (time.Since for time.Until)
TTLOpSince(d, k, t1, t2) ==
    IF k \notin DOMAIN d THEN Result(d, 0, ErrKeyNotFound)
    ELSE IF d[k].expiration = ZeroTime THEN Result(d, -1, OK)
    ELSE IF t1 > d[k].expiration THEN Result(MapDelete(d, k), 0, ErrKeyNotFound)
    ELSE Result(d, t2 - d[k].expiration, OK)

TTLOp(d, k, t1, t2) ==
    IF k \notin DOMAIN d THEN Result(d, 0, ErrKeyNotFound)
    ELSE IF d[k].expiration = ZeroTime THEN Result(d, -1, OK)
    ELSE IF t1 > d[k].expiration THEN Result(MapDelete(d, k), 0, ErrKeyNotFound)
    ELSE Result(d, d[k].expiration - t2, OK)

\* a sweep without the IsZero test
CleanupOpNoZeroTest(d, t) == [k \in {x \in DOMAIN d : ~(t > d[x].expiration)} |-> d[k]]

\* a sweep that removes every entry that has an expiration, passed or not
CleanupOpEarly(d, t) ==
    [k \in {x \in DOMAIN d : d[x].expiration = ZeroTime} |-> d[k]]

\* one pass of the background sweep
CleanupOp(d, t) == [k \in {x \in DOMAIN d : ~Expired(d[x], t)} |-> d[k]]

(***************************************************************************)
(* Hash operations.                                                        *)
(***************************************************************************)
IsHash(val) == val.t = "map[string]interface{}"
IsList(val) == val.t = "[]interface{}"
IsSet(val) == val.t = "map[interface{}]bool"

\* what HSet, LPush, RPush and SAdd do first: an absent or expired key gets a
\* new item holding the empty value `empty` and no expiration
FreshIfAbsent(d, k, t, empty) ==
    IF Lookup(d, k, t).found THEN d ELSE MapPut(d, k, Item(empty, ZeroTime))

HGetOp(d, k, f, t) ==
    LET l == Lookup(d, k, t) IN
    IF ~l.found THEN Result(l.data, <<>>, ErrKeyNotFound)
    ELSE IF ~IsHash(d[k].value) THEN Result(d, <<>>, ErrNotHash)
    ELSE IF f \notin DOMAIN d[k].value.v THEN Result(d, <<>>, ErrFieldNotFound)
    ELSE Result(d, Sprint(d[k].value.v[f]), OK)

HSetOp(d, k, pairs, t) ==
    LET d1 == FreshIfAbsent(d, k, t, GoHash(EmptyMap))
        item == d1[k]
        hashMap == IF IsHash(item.value) THEN item.value.v ELSE EmptyMap
        written == [f \in (DOMAIN hashMap) \cup (DOMAIN pairs) |->
                       IF f \in DOMAIN pairs THEN pairs[f] ELSE hashMap[f]]
    IN Result(MapPut(d1, k, Item(GoHash(written), item.expiration)), Nil, OK)

\* HGetAll that drops an entry that is no hash
HGetAllOpDropping(d, k, t) ==
    LET l == Lookup(d, k, t) IN
    IF ~l.found THEN Result(l.data, Nil, ErrKeyNotFound)
    ELSE IF ~IsHash(d[k].value) THEN Result(MapDelete(d, k), Nil, ErrNotHash)
    ELSE Result(d, [f \in DOMAIN d[k].value.v |-> Sprint(d[k].value.v[f])], OK)

HGetAllOp(d, k, t) ==
    LET l == Lookup(d, k, t) IN
    IF ~l.found THEN Result(l.data, Nil, ErrKeyNotFound)
    ELSE IF ~IsHash(d[k].value) THEN Result(d, Nil, ErrNotHash)
    ELSE Result(d, [f \in DOMAIN d[k].value.v |-> Sprint(d[k].value.v[f])], OK)

\* HDelete that empties the hash
HDeleteOpAll(d, k, fields, t) ==
    LET l == Lookup(d, k, t) IN
    IF ~l.found THEN Result(l.data, Nil, ErrKeyNotFound)
    ELSE IF ~IsHash(d[k].value) THEN Result(d, Nil, ErrNotHash)
    ELSE Result(MapPut(d, k, Item(GoHash(EmptyMap), d[k].expiration)), Nil, OK)

HDeleteOp(d, k, fields, t) ==
    LET l == Lookup(d, k, t) IN
    IF ~l.found THEN Result(l.data, Nil, ErrKeyNotFound)
    ELSE IF ~IsHash(d[k].value) THEN Result(d, Nil, ErrNotHash)
    ELSE LET hashMap == d[k].value.v
             kept == [f \in (DOMAIN hashMap) \ fields |-> hashMap[f]]
         IN Result(MapPut(d, k, Item(GoHash(kept), d[k].expiration)), Nil, OK)

(***************************************************************************)
(* List operations.                                                        *)
(***************************************************************************)
RECURSIVE Reverse(_)
Reverse(l) == IF Len(l) = 0 THEN <<>> ELSE Reverse(Tail(l)) \o <<Head(l)>>

\* LPush that keeps the values in argument order
LPushOpInOrder(d, k, values, t) ==
    LET d1 == FreshIfAbsent(d, k, t, GoList(<<>>))
        item == d1[k]
        list == IF IsList(item.value) THEN item.value.v ELSE <<>>
    IN Result(MapPut(d1, k, Item(GoList(values \o list), item.expiration)), Nil, OK)

\* each value in turn is put in front of the list
LPushOp(d, k, values, t) ==
    LET d1 == FreshIfAbsent(d, k, t, GoList(<<>>))
        item == d1[k]
        list == IF IsList(item.value) THEN item.value.v ELSE <<>>
    IN Result(MapPut(d1, k, Item(GoList(Reverse(values) \o list), item.expiration)),
              Nil, OK)

RPushOp(d, k, values, t) ==
    LET d1 == FreshIfAbsent(d, k, t, GoList(<<>>))
        item == d1[k]
        list == IF IsList(item.value) THEN item.value.v ELSE <<>>
    IN Result(MapPut(d1, k, Item(GoList(list \o values), item.expiration)), Nil, OK)

LPopOp(d, k, t) ==
    LET l == Lookup(d, k, t) IN
    IF ~l.found THEN Result(l.data, <<>>, ErrKeyNotFound)
    ELSE IF ~IsList(d[k].value) \/ Len(d[k].value.v) = 0
         THEN Result(d, <<>>, ErrListEmpty)
    ELSE LET list == d[k].value.v IN
         Result(MapPut(d, k, Item(GoList(Tail(list)), d[k].expiration)),
                Sprint(Head(list)), OK)

RPopOp(d, k, t) ==
    LET l == Lookup(d, k, t) IN
    IF ~l.found THEN Result(l.data, <<>>, ErrKeyNotFound)
    ELSE IF ~IsList(d[k].value) \/ Len(d[k].value.v) = 0
         THEN Result(d, <<>>, ErrListEmpty)
    ELSE LET list == d[k].value.v IN
         Result(MapPut(d, k, Item(GoList(SubSeq(list, 1, Len(list) - 1)),
                                  d[k].expiration)),
                Sprint(list[Len(list)]), OK)

\* LRange that leaves out the element at stop
LRangeOpExclusive(d, k, start, stop, t) ==
    LET l == Lookup(d, k, t) IN
    IF ~l.found THEN Result(l.data, <<>>, ErrKeyNotFound)
    ELSE IF ~IsList(d[k].value) THEN Result(d, <<>>, ErrNotList)
    ELSE LET list == d[k].value.v
             length == Len(list)
             start1 == IF start < 0 THEN length + start ELSE start
             stop1 == IF stop < 0 THEN length + stop ELSE stop
             start2 == IF start1 < 0 THEN 0 ELSE start1
             stop2 == IF stop1 >= length THEN length - 1 ELSE stop1
         IN IF start2 >= stop2 THEN Result(d, <<>>, OK)
            ELSE Result(d, [i \in 1..(stop2 - start2) |-> Sprint(list[start2 + i])], OK)

LRangeOp(d, k, start, stop, t) ==
    LET l == Lookup(d, k, t) IN
    IF ~l.found THEN Result(l.data, <<>>, ErrKeyNotFound)
    ELSE IF ~IsList(d[k].value) THEN Result(d, <<>>, ErrNotList)
    ELSE LET list == d[k].value.v
             length == Len(list)
             start1 == IF start < 0 THEN length + start ELSE start
             stop1 == IF stop < 0 THEN length + stop ELSE stop
             start2 == IF start1 < 0 THEN 0 ELSE start1
             stop2 == IF stop1 >= length THEN length - 1 ELSE stop1
         IN IF start2 > stop2 THEN Result(d, <<>>, OK)
            ELSE Result(d, [i \in 1..(stop2 - start2 + 1) |->
                               Sprint(list[start2 + i])], OK)

(***************************************************************************)
(* Set operations: map[interface{}]bool holds true for every member added. *)
(* SMembers ranges over the Go map in an order the runtime picks: order is *)
(* that order, a sequence holding every possible member once.              *)
(***************************************************************************)
Range(f) == {f[i] : i \in DOMAIN f}

\* SAdd that starts a new set each time
SAddOpReplacing(d, k, members, t) ==
    LET d1 == FreshIfAbsent(d, k, t, GoSet({}))
        item == d1[k]
    IN Result(MapPut(d1, k, Item(GoSet(Range(members)), item.expiration)), Nil, OK)

SAddOp(d, k, members, t) ==
    LET d1 == FreshIfAbsent(d, k, t, GoSet({}))
        item == d1[k]
        set == IF IsSet(item.value) THEN item.value.v ELSE {}
    IN Result(MapPut(d1, k, Item(GoSet(set \cup Range(members)), item.expiration)),
              Nil, OK)

SRemOp(d, k, members, t) ==
    LET l == Lookup(d, k, t) IN
    IF ~l.found THEN Result(l.data, Nil, ErrKeyNotFound)
    ELSE IF ~IsSet(d[k].value) THEN Result(d, Nil, ErrNotSet)
    ELSE Result(MapPut(d, k, Item(GoSet(d[k].value.v \ Range(members)),
                                  d[k].expiration)), Nil, OK)

RECURSIVE MembersIn(_, _)
MembersIn(set, order) ==
    IF Len(order) = 0 THEN <<>>
    ELSE (IF Head(order) \in set THEN <<Sprint(Head(order))>> ELSE <<>>)
         \o MembersIn(set, Tail(order))

SMembersOp(d, k, order, t) ==
    LET l == Lookup(d, k, t) IN
    IF ~l.found THEN Result(l.data, <<>>, ErrKeyNotFound)
    ELSE IF ~IsSet(d[k].value) THEN Result(d, <<>>, ErrNotSet)
    ELSE Result(d, MembersIn(d[k].value.v, order), OK)

SIsMemberOp(d, k, member, t) ==
    LET l == Lookup(d, k, t) IN
    IF ~l.found THEN Result(l.data, FALSE, ErrKeyNotFound)
    ELSE IF ~IsSet(d[k].value) THEN Result(d, FALSE, ErrNotSet)
    ELSE Result(d, member \in d[k].value.v, OK)

(***************************************************************************)
(* State.                                                                  *)
(*   data    MemoryCache.data                                              *)
(*   now     the clock time.Now() reads                                    *)
(*   last    the latest facade call: operation, key, arguments, the clock  *)
(*           and the state of the key when it started, and its results     *)
(*   calls   the number of facade calls made                               *)
(*   stamp   for each key, the ttl and the clock of the latest call that   *)
(*           gave the key an expiration (Set, MSet with ttl > 0, Expire)   *)
(*   config  CacheConfig: the key prefix of the remote engine              *)
(*   rdata   the remote store: for each remote key its value and the time  *)
(*           it expires at                                                 *)
(*   pipe    the pipeline of the remote MSet that is under way: the SET    *)
(*           commands the store has not executed yet                       *)
(*   th      for each goroutine of the concurrent specifications: where it *)
(*           is in its call, the call, what it read, and its results       *)
(*   mutex   MemoryCache.mutex                                             *)
(*   base    the value the first of the concurrent increments started from *)
(*   crashed the runtime has stopped the process (fatal error)             *)
(*   closes  the number of Close calls that have returned on the           *)
(*           in-process engine                                             *)
(*   client  RedisCache.client: whether its connection pool is closed, and *)
(*           how many times the pool's connections have been released     *)
(*   engine  what Factory.CreateCache has built: the engine returned, the  *)
(*           cleanup goroutine's ticker and the ticks waiting in its       *)
(*           channel C, the connection to the store                        *)
(*   jwt     the JWT helper: the tokens issued and the tokens revoked      *)
(*   heap    the maps (map[string]interface{}) that exist, by address, and *)
(*           the addresses the caller holds                                *)
(*   app     the Application of src/core.go: its components, the server's  *)
(*           error channel, the context and the progress of Run            *)
(*   rbac    the package variable enforcer of the RBAC service and the     *)
(*           callers of NewCasbinService                                   *)
(*   limiter ipLimiterStore, the limiters made and the requests in the     *)
(*           rate-limit middleware                                         *)
(***************************************************************************)
VARIABLES data, now, last, calls, stamp, config, rdata, pipe, th, mutex, base, crashed,
          closes, client, engine, jwt, heap, app, rbac, limiter

vars == <<calls, now, data, stamp, config, rdata, pipe, mutex, base, crashed, th,
          closes, client, engine, jwt, heap, app, rbac, limiter, last>>

\* what the sequential specifications leave alone
conc == <<th, mutex, base, crashed>>

\* what the calls on the in-process engine leave alone
remote == <<config, rdata, pipe>>
\* what the calls on the remote engine leave alone
inProcess == <<data, stamp>>
\* what the data calls of both engines leave alone
rest == <<heap, app, rbac, limiter>>
outside == <<closes, client, engine, jwt, rest>>

\* the inputs of the calls
SetValues == {GoString(<<"a">>), GoString(<<"1", "0">>), GoInt(5), GoFloat64(5),
              GoBool(TRUE)}
Durations == {-1, 0, 1}
Deltas == {3, 5}
Elems == {GoString(<<"x">>), GoInt(7)}
PushValues == {<<GoString(<<"x">>), GoInt(7)>>}
KeyLists == {<<"k1">>, <<"k1", "k2">>, <<"k2", "k2">>}
PairMaps == {[k \in {"k1"} |-> GoString(<<"1">>)],
             [k \in Keys |-> IF k = "k1" THEN GoString(<<"1">>) ELSE GoInt(5)]}
KeySets == {{"k1"}, Keys}
Ranges == {<<0, -1>>, <<-1, 5>>}
Orders == {<<GoInt(7), GoString(<<"x">>)>>, <<GoString(<<"x">>), GoInt(7)>>}
\* how far the clock moves between two reads of one call
ReadGaps == {0, 1}

NoStamp == [ttl |-> 0, at |-> ZeroTime]
\* what the table holds for a key when a call starts
Was(k) == IF k \notin DOMAIN data THEN "absent"
          ELSE IF Expired(data[k], now) THEN "expired"
          ELSE "live"

NoCall == [op |-> "none", key |-> "", args |-> Nil, at |-> ZeroTime, was |-> "",
           ret |-> Nil, err |-> OK]

\* the record of a call made in the current state with results r
Call(op, k, args, r) ==
    [op |-> op, key |-> k, args |-> args, at |-> now,
     was |-> IF k \in Keys THEN Was(k) ELSE "", ret |-> r.ret, err |-> r.err]

\* the goroutines: the callers, and the cleanup goroutine NewMemoryCache starts
Callers == 1..NThreads
Sweeper == NThreads + 1
NoThread == NThreads + 2
NoBase == [set |-> FALSE, v |-> 0]

NoResult == [data |-> EmptyMap, ret |-> Nil, err |-> ""]
IdleThread == [pc |-> "idle", call |-> NoCall, read |-> NoResult, res |-> NoResult]

\* sync.RWMutex: w is the writer that has announced itself (it holds the lock
\* once the readers have left), readers are the goroutines holding RLock
FreeMutex == [w |-> NoThread, held |-> FALSE, readers |-> {}]

\* no pipeline has been sent
NoPipe == [state |-> "none", cmds |-> <<>>, pairs |-> EmptyMap, ttl |-> 0, at |-> ZeroTime,
           before |-> EmptyMap]

\* an open client
OpenClient == [closed |-> FALSE, released |-> 0]
\* no engine has been built
NoEngine == [cache |-> "none", ticker |-> "none", C |-> 0, conn |-> FALSE]
NoJWT == [issued |-> {}, revoked |-> {}]

\* no map of a caller, no application, no enforcer, no limiter yet
NoHeap == [obj |-> <<>>, held |-> {}]
NoApp == [built |-> FALSE]
\* var enforcer *casbin.Enforcer is nil (0); no caller of NewCasbinService yet
NoRBAC == [enforcer |-> 0, builds |-> 0, seeds |-> 0,
           pc |-> [t \in 1..NThreads |-> "idle"],
           wrote |-> [t \in 1..NThreads |-> FALSE]]
\* var ipLimiterStore sync.Map is empty; no request yet
NoLimiter == [store |-> <<>>, tokens |-> <<>>,
              req |-> [t \in 1..NThreads |->
                         [pc |-> "idle", ip |-> "", lim |-> 0, got |-> 0, allowed |-> FALSE]]]

RestInit ==
    /\ heap = NoHeap
    /\ app = NoApp
    /\ rbac = NoRBAC
    /\ limiter = NoLimiter

OutsideInit ==
    /\ closes = 0
    /\ client = OpenClient
    /\ engine = NoEngine
    /\ jwt = NoJWT
    /\ RestInit

ConcInit ==
    /\ th = [t \in Callers \cup {Sweeper} |-> IdleThread]
    /\ mutex = FreeMutex
    /\ base = NoBase
    /\ crashed = FALSE

Init ==
    /\ data = EmptyMap
    /\ now = StartTime
    /\ last = NoCall
    /\ calls = 0
    /\ stamp = [k \in Keys |-> NoStamp]
    /\ config = [Prefix |-> ""]
    /\ rdata = EmptyMap
    /\ pipe = NoPipe
    /\ ConcInit
    /\ OutsideInit

\* a call that reads the clock once and sets no expiration
Apply(op, k, args, r) ==
    /\ calls < MaxCalls
    /\ data' = r.data
    /\ last' = Call(op, k, args, r)
    /\ calls' = calls + 1
    /\ UNCHANGED <<now, stamp, remote, outside, conc>>

Get(k) == Apply("Get", k, Nil, GetOp(data, k, now))

Set(k, val, ttl) ==
    /\ calls < MaxCalls
    /\ LET r == SetOp(data, k, val, ttl, now) IN
       /\ data' = r.data
       /\ last' = Call("Set", k, [value |-> val, ttl |-> ttl], r)
    /\ stamp' = [stamp EXCEPT ![k] = IF ttl > 0 THEN [ttl |-> ttl, at |-> now] ELSE @]
    /\ calls' = calls + 1
    /\ UNCHANGED <<now, remote, outside, conc>>

Delete(k) == Apply("Delete", k, Nil, DeleteOp(data, k))

Exists(k) == Apply("Exists", k, Nil, ExistsOp(data, k, now))

\* the clock reads of MGet: one per key, each no earlier than the one before
ReadTimes(n) == {ts \in [1..n -> Times] :
                    /\ ts[1] = now
                    /\ \A i \in 2..n : ts[i] - ts[i - 1] \in ReadGaps}

MGet(ks) ==
    /\ calls < MaxCalls
    /\ \E ts \in ReadTimes(Len(ks)) :
          /\ LET r == MGetOp(data, ks, ts) IN
             /\ data' = r.data
             /\ last' = Call("MGet", "",
                             [keys |-> ks, times |-> ts,
                              was |-> [i \in 1..Len(ks) |-> Was(ks[i])]], r)
          /\ now' = ts[Len(ks)]
    /\ calls' = calls + 1
    /\ UNCHANGED <<stamp, remote, outside, conc>>

MSet(pairs, ttl) ==
    /\ calls < MaxCalls
    /\ LET r == MSetOp(data, pairs, ttl, now) IN
       /\ data' = r.data
       /\ last' = Call("MSet", "", [pairs |-> pairs, ttl |-> ttl], r)
    /\ stamp' = [k \in Keys |-> IF k \in DOMAIN pairs /\ ttl > 0
                                THEN [ttl |-> ttl, at |-> now] ELSE stamp[k]]
    /\ calls' = calls + 1
    /\ UNCHANGED <<now, remote, outside, conc>>

MDelete(ks) == Apply("MDelete", "", [keys |-> ks], MDeleteOp(data, ks))

Increment(k, delta) ==
    Apply("Increment", k, [delta |-> delta], IncrementOp(data, k, delta, now))

Decrement(k, delta) ==
    Apply("Decrement", k, [delta |-> delta], DecrementOp(data, k, delta, now))

Expire(k, ttl) ==
    /\ calls < MaxCalls
    /\ \E gap \in ReadGaps :
          /\ now + gap \in Times
          /\ LET r == ExpireOp(data, k, ttl, now, now + gap) IN
             /\ data' = r.data
             /\ last' = Call("Expire", k, [ttl |-> ttl, until |-> now + gap], r)
             /\ stamp' = [stamp EXCEPT ![k] = IF r.err = OK
                                               THEN [ttl |-> ttl, at |-> now + gap]
                                               ELSE @]
          /\ now' = now + gap
    /\ calls' = calls + 1
    /\ UNCHANGED <<remote, outside, conc>>

TTL(k) ==
    /\ calls < MaxCalls
    /\ \E gap \in ReadGaps :
          /\ now + gap \in Times
          /\ LET r == TTLOp(data, k, now, now + gap) IN
             /\ data' = r.data
             /\ last' = Call("TTL", k,
                             [until |-> now + gap,
                              expiration |-> IF k \in DOMAIN data
                                             THEN data[k].expiration ELSE ZeroTime], r)
          /\ now' = now + gap
    /\ calls' = calls + 1
    /\ UNCHANGED <<stamp, remote, outside, conc>>

HGet(k, f) == Apply("HGet", k, [field |-> f], HGetOp(data, k, f, now))

HSet(k, pairs) == Apply("HSet", k, [pairs |-> pairs], HSetOp(data, k, pairs, now))

HGetAll(k) == Apply("HGetAll", k, Nil, HGetAllOp(data, k, now))

HDelete(k, fields) ==
    Apply("HDelete", k, [fields |-> fields], HDeleteOp(data, k, fields, now))

LPush(k, values) == Apply("LPush", k, [values |-> values], LPushOp(data, k, values, now))

RPush(k, values) == Apply("RPush", k, [values |-> values], RPushOp(data, k, values, now))

LPop(k) == Apply("LPop", k, Nil, LPopOp(data, k, now))

RPop(k) == Apply("RPop", k, Nil, RPopOp(data, k, now))

LRange(k, start, stop) ==
    Apply("LRange", k, [start |-> start, stop |-> stop], LRangeOp(data, k, start, stop, now))

SAdd(k, members) == Apply("SAdd", k, [members |-> members], SAddOp(data, k, members, now))

SRem(k, members) == Apply("SRem", k, [members |-> members], SRemOp(data, k, members, now))

SMembers(k, order) == Apply("SMembers", k, Nil, SMembersOp(data, k, order, now))

SIsMember(k, member) ==
    Apply("SIsMember", k, [member |-> member], SIsMemberOp(data, k, member, now))

\* one tick of the cleanup goroutine's ticker
cleanup ==
    /\ data' = CleanupOp(data, now)
    /\ data' # data
    /\ UNCHANGED <<now, last, calls, stamp, remote, outside, conc>>

\* time passes
Tick ==
    /\ now + 1 \in Times
    /\ now' = now + 1
    /\ UNCHANGED <<data, last, calls, stamp, remote, outside, conc>>

Next ==
    \/ \E k \in Keys : Get(k)
    \/ \E k \in Keys, val \in SetValues, ttl \in Durations : Set(k, val, ttl)
    \/ \E k \in Keys : Delete(k)
    \/ \E k \in Keys : Exists(k)
    \/ \E ks \in KeyLists : MGet(ks)
    \/ \E pairs \in PairMaps, ttl \in Durations : MSet(pairs, ttl)
    \/ \E ks \in KeySets : MDelete(ks)
    \/ \E k \in Keys, delta \in Deltas : Increment(k, delta)
    \/ \E k \in Keys, delta \in Deltas : Decrement(k, delta)
    \/ \E k \in Keys, ttl \in Durations : Expire(k, ttl)
    \/ \E k \in Keys : TTL(k)
    \/ \E k \in Keys, f \in Fields : HGet(k, f)
    \/ \E k \in Keys : HSet(k, [f \in Fields |-> GoString(<<"x">>)])
    \/ \E k \in Keys : HGetAll(k)
    \/ \E k \in Keys : HDelete(k, Fields)
    \/ \E k \in Keys, values \in PushValues : LPush(k, values)
    \/ \E k \in Keys, values \in PushValues : RPush(k, values)
    \/ \E k \in Keys : LPop(k)
    \/ \E k \in Keys : RPop(k)
    \/ \E k \in Keys, r \in Ranges : LRange(k, r[1], r[2])
    \/ \E k \in Keys, values \in PushValues : SAdd(k, values)
    \/ \E k \in Keys, values \in PushValues : SRem(k, values)
    \/ \E k \in Keys, order \in Orders : SMembers(k, order)
    \/ \E k \in Keys, member \in Elems : SIsMember(k, member)
    \/ cleanup
    \/ Tick

Spec == Init /\ [][Next]_vars

(***************************************************************************)
(* Properties of the in-process engine, sequential calls.                  *)
(***************************************************************************)
\* a step that is a facade call
IsCall == calls' = calls + 1

\* the key of the call holds an entry whose expiration has passed
ExpiredEntry(k) == k \in DOMAIN data /\ Expired(data[k], now)

ReadOps == {"Get", "TTL", "HGet", "HGetAll", "LRange", "SMembers", "SIsMember"}
RemoveOps == {"HDelete", "LPop", "RPop", "SRem"}

C3Step ==
    IsCall =>
      LET c == last' IN
      /\ (c.key \in Keys /\ ExpiredEntry(c.key)) =>
           /\ c.op \in ReadOps \cup RemoveOps \cup {"Expire"} =>
                c.err = ErrKeyNotFound /\ c.key \notin DOMAIN data'
           /\ c.op = "Exists" => c.ret = FALSE /\ c.err = OK /\ c.key \notin DOMAIN data'
           /\ c.op = "Increment" =>
                c.err = OK /\ c.ret = c.args.delta
                /\ data'[c.key] = Item(GoInt64(c.args.delta), ZeroTime)
           /\ c.op = "Decrement" =>
                c.err = OK /\ c.ret = -c.args.delta
                /\ data'[c.key] = Item(GoInt64(-c.args.delta), ZeroTime)
           /\ c.op = "HSet" => data'[c.key] = Item(GoHash(c.args.pairs), ZeroTime)
           /\ c.op = "LPush" =>
                data'[c.key] = Item(GoList(Reverse(c.args.values)), ZeroTime)
           /\ c.op = "RPush" => data'[c.key] = Item(GoList(c.args.values), ZeroTime)
           /\ c.op = "SAdd" =>
                data'[c.key] = Item(GoSet(Range(c.args.members)), ZeroTime)
      /\ c.op = "MGet" =>
           \A i \in 1..Len(c.args.keys) :
              ExpiredEntry(c.args.keys[i]) => c.ret[i] = Nil

\* C3: once the clock is strictly past an entry's expiration, every operation
\* treats the key as absent, swept or not: the reads, the removals and Expire
\* return "key not found", Exists returns false, MGet returns nil at the key's
\* position, and Increment, Decrement, HSet, LPush, RPush and SAdd start from a
\* new empty value without expiration.
C3_ExpiredKeyIsAbsent == [][C3Step]_vars

\* an expired entry that no sweep removed, read by Get
C3_Witness ==
    /\ last.op = "Get" /\ last.was = "expired" /\ last.err = ErrKeyNotFound
    /\ stamp[last.key].ttl > 0 /\ last.at > stamp[last.key].at + stamp[last.key].ttl

\* the text forms of the values the calls store, as Go prints them
TextForm(val) ==
    CASE val = GoString(<<"a">>) -> <<"a">>
      [] val = GoString(<<"1", "0">>) -> <<"1", "0">>
      [] val = GoInt(5) -> <<"5">>
      [] val = GoFloat64(5) -> <<"2", ".", "5">>
      [] val = GoBool(TRUE) -> <<"t", "r", "u", "e">>

C4Step ==
    (/\ last.op = "Set" /\ last.args.ttl = 0
     /\ IsCall /\ last'.key = last.key /\ last'.op \in {"Get", "Exists"}) =>
       /\ last'.err = OK
       /\ last'.op = "Get" => last'.ret = TextForm(last.args.value)
       /\ last'.op = "Exists" => last'.ret = TRUE

Permanent(k) == k \in DOMAIN data /\ data[k].expiration = ZeroTime

C5Step ==
    /\ (IsCall /\ last'.op = "Set") =>
          data'[last'.key] =
             Item(last'.args.value,
                  IF last'.args.ttl > 0 THEN now + last'.args.ttl ELSE ZeroTime)
    /\ (IsCall /\ last'.op = "MSet") =>
          \A k \in DOMAIN last'.args.pairs :
             data'[k] =
                Item(last'.args.pairs[k],
                     IF last'.args.ttl > 0 THEN now + last'.args.ttl ELSE ZeroTime)
    /\ \A k \in Keys :
          Permanent(k) =>
            /\ ~IsCall => (k \in DOMAIN data' /\ data'[k] = data[k])
            /\ (IsCall /\ last'.key = k /\ last'.op = "Exists") =>
                 (last'.ret = TRUE /\ last'.err = OK /\ data'[k] = data[k])
            /\ (IsCall /\ last'.key = k /\ last'.op = "TTL") =>
                 (last'.ret = -1 /\ last'.err = OK /\ data'[k] = data[k])
            /\ (IsCall /\ last'.key = k /\ last'.op = "Get") =>
                 (last'.err = OK /\ data'[k] = data[k])

\* C5: Set and MSet store an entry whose expiration is given by their ttl alone:
\* now + ttl when ttl > 0, none when ttl <= 0.  An entry without expiration
\* stays at every later time: no tick and no sweep changes it, Exists returns
\* true, TTL returns -1 without error and Get succeeds.
C5_PermanentKeys == [][C5Step]_vars

\* a key that had an expiration, written again by Set with ttl 0, still there
\* at the end of time after its first expiration has passed
C5_Witness ==
    /\ last.op = "TTL" /\ last.ret = -1 /\ last.err = OK
    /\ stamp[last.key].ttl > 0 /\ last.at > stamp[last.key].at + stamp[last.key].ttl
    /\ last.key \in DOMAIN data /\ data[last.key].value = GoString(<<"a">>)

IsInteger(val) == val.t \in {"int", "int64"}

C6Step ==
    (IsCall /\ last'.op \in {"Increment", "Decrement"}) =>
       LET c == last'
           k == c.key
           d == IF c.op = "Increment" THEN c.args.delta ELSE -c.args.delta
       IN
       /\ ~Live(data, k, now) =>
            c.err = OK /\ c.ret = d /\ data'[k].value = GoInt64(d)
       /\ (Live(data, k, now) /\ IsInteger(data[k].value)) =>
            /\ c.err = OK /\ c.ret = data[k].value.v + d
            /\ data'[k].value = GoInt64(data[k].value.v + d)
       /\ c.op = "Decrement" =>
            LET r == IncrementOp(data, k, -c.args.delta, now) IN
            data' = r.data /\ c.ret = r.ret /\ c.err = r.err

\* C6: Increment(k, d) on an absent or expired key creates k holding d and
\* returns d; on an integer c it stores and returns c + d; Decrement(k, d) has
\* the result and the effect of Increment(k, -d).
C6_IncrementDecrement == [][C6Step]_vars

\* Increment(k, 5) on an absent key, then Decrement(k, 3), returns 2
C6_Witness ==
    /\ last.op = "Decrement" /\ last.args.delta = 3 /\ last.ret = 2 /\ last.err = OK
    /\ calls = 2 /\ data[last.key].value = GoInt64(2)

\* C7: Increment and Decrement fail as non-numeric only when the stored value
\* cannot be read as an integer: a key holding the decimal text "10" is
\* incremented.
C7_NotNumericOnlyForNonIntegers ==
    (/\ last.op \in {"Increment", "Decrement"} /\ last.err = ErrNotNumeric
     /\ last.key \in DOMAIN data) =>
       ~IsIntText(Sprint(data[last.key].value))

\* the entry's expiration is the one the latest Set, MSet or Expire gave it
Stamped(k) == stamp[k].at + stamp[k].ttl

\* a successful TTL of a key whose expiration a call with ttl > 0 set
TTLOfStamped ==
    /\ last.op = "TTL" /\ last.err = OK /\ last.was = "live"
    /\ stamp[last.key].ttl > 0
    /\ last.args.expiration = Stamped(last.key)

\* C10 as stated: whenever TTL succeeds for a key whose expiration was set with
\* ttl > 0, the returned duration d satisfies 0 < d <= ttl and is at most ttl
\* minus the time elapsed since that write.
C10_Original ==
    TTLOfStamped =>
       /\ 0 < last.ret /\ last.ret <= stamp[last.key].ttl
       /\ last.ret <= stamp[last.key].ttl - (last.args.until - stamp[last.key].at)

\* C10 amended: the returned duration is the ttl minus the time elapsed between
\* the write and the clock read of TTL, so it is at most ttl and never grows;
\* it is positive only while the clock is before the expiration: at the
\* expiration itself TTL still succeeds and returns 0, and less than 0 by at
\* most the time the clock moved during the call.
C10_TTLRemaining ==
    TTLOfStamped =>
       /\ last.ret = stamp[last.key].ttl - (last.args.until - stamp[last.key].at)
       /\ last.ret <= stamp[last.key].ttl
       /\ last.ret >= -(last.args.until - last.at)
       /\ (last.args.until < Stamped(last.key) => last.ret > 0)

\* TTL called when the clock has reached the expiration returns 0
C10_Witness == TTLOfStamped /\ last.ret = 0 /\ last.at > stamp[last.key].at

(***************************************************************************)
(* The remote engine.  RedisCache sends every call to the remote store     *)
(* through the client; the store's commands are modelled by what the store *)
(* documents for them.  The remote clock is the same clock, in seconds.    *)
(***************************************************************************)
\* RedisCache.getKey
getKey(cfg, key) == IF cfg.Prefix # "" THEN cfg.Prefix \o ":" \o key ELSE key

\* fmt.Sprintf("%f", f): six decimals
FormatFloatF(h) ==
    (IF h < 0 THEN <<"-">> ELSE <<>>)
    \o UDec((IF h < 0 THEN -h ELSE h) \div 2)
    \o (IF h % 2 = 0 THEN <<".", "0", "0", "0", "0", "0", "0">>
        ELSE <<".", "5", "0", "0", "0", "0", "0">>)

\* RedisCache.serialize, for the scalar values
serialize(val) ==
    CASE val.t = "string" -> val.v
      [] val.t \in {"int", "int64"} -> FormatInt(val.v)
      [] val.t = "float64" -> FormatFloatF(val.v)
      [] val.t = "bool" -> FormatBool(val.v)

\* the results of the client's commands
RedisNil == "redis: nil"
ErrWrongType == "WRONGTYPE Operation against a key holding the wrong kind of value"
ErrNotInteger == "ERR value is not an integer or out of range"
\* the errors RedisCache wraps them in
ErrFailedGet == "failed to get key"
ErrFailedIncrement == "failed to increment key"
ErrFailedDecrement == "failed to decrement key"

RItem(val, exp) == [value |-> val, expireAt |-> exp]

\* the store drops a key whose time has passed when a command touches it
RLookup(rd, rk, t) ==
    IF rk \notin DOMAIN rd THEN [found |-> FALSE, data |-> rd]
    ELSE IF rd[rk].expireAt # ZeroTime /\ t > rd[rk].expireAt
         THEN [found |-> FALSE, data |-> MapDelete(rd, rk)]
    ELSE [found |-> TRUE, data |-> rd]

\* GET
ClientGet(rd, rk, t) ==
    LET l == RLookup(rd, rk, t) IN
    IF ~l.found THEN Result(l.data, <<>>, RedisNil)
    ELSE IF rd[rk].value.t # "string" THEN Result(rd, <<>>, ErrWrongType)
    ELSE Result(rd, rd[rk].value.v, OK)

\* SET key value [EX seconds]: a positive expiration is sent, any other is not
ClientSet(rd, rk, text, ttl, t) ==
    Result(MapPut(rd, rk, RItem(GoString(text), IF ttl > 0 THEN t + ttl ELSE ZeroTime)),
           Nil, OK)

\* DEL
ClientDel(rd, rks, t) == Result([k \in (DOMAIN rd) \ rks |-> rd[k]], Nil, OK)

\* EXISTS: the number of the keys that exist
ClientExists(rd, rk, t) ==
    LET l == RLookup(rd, rk, t) IN Result(l.data, IF l.found THEN 1 ELSE 0, OK)

\* INCRBY: an absent key counts from 0, the expiration is kept
ClientIncrBy(rd, rk, delta, t) ==
    LET l == RLookup(rd, rk, t) IN
    IF ~l.found
    THEN Result(MapPut(l.data, rk, RItem(GoString(FormatInt(delta)), ZeroTime)), delta, OK)
    ELSE IF rd[rk].value.t # "string" THEN Result(rd, 0, ErrWrongType)
    ELSE IF ~IsIntText(rd[rk].value.v) THEN Result(rd, 0, ErrNotInteger)
    ELSE LET n == ParseInt(rd[rk].value.v) + delta IN
         Result(MapPut(rd, rk, RItem(GoString(FormatInt(n)), rd[rk].expireAt)), n, OK)

\* DECRBY
ClientDecrBy(rd, rk, delta, t) == ClientIncrBy(rd, rk, -delta, t)

\* EXPIRE: false and no error for an absent key; a timeout that is not
\* positive deletes the key
ClientExpire(rd, rk, ttl, t) ==
    LET l == RLookup(rd, rk, t) IN
    IF ~l.found THEN Result(l.data, FALSE, OK)
    ELSE IF ttl <= 0 THEN Result(MapDelete(rd, rk), TRUE, OK)
    ELSE Result(MapPut(rd, rk, RItem(rd[rk].value, t + ttl)), TRUE, OK)

\* TTL: -2 for an absent key, -1 for a key without expiration
ClientTTL(rd, rk, t) ==
    LET l == RLookup(rd, rk, t) IN
    IF ~l.found THEN Result(l.data, -2, OK)
    ELSE IF rd[rk].expireAt = ZeroTime THEN Result(rd, -1, OK)
    ELSE Result(rd, rd[rk].expireAt - t, OK)

\* RedisCache methods
RedisGetOp(rd, cfg, k, t) ==
    LET r == ClientGet(rd, getKey(cfg, k), t) IN
    IF r.err = RedisNil THEN Result(r.data, <<>>, ErrKeyNotFound)
    ELSE IF r.err # OK THEN Result(r.data, <<>>, ErrFailedGet)
    ELSE r

RedisSetOp(rd, cfg, k, val, ttl, t) == ClientSet(rd, getKey(cfg, k), serialize(val), ttl, t)

RedisDeleteOp(rd, cfg, k, t) == ClientDel(rd, {getKey(cfg, k)}, t)

RedisExistsOp(rd, cfg, k, t) ==
    LET r == ClientExists(rd, getKey(cfg, k), t) IN Result(r.data, r.ret > 0, OK)

RedisIncrementOp(rd, cfg, k, delta, t) ==
    LET r == ClientIncrBy(rd, getKey(cfg, k), delta, t) IN
    IF r.err # OK THEN Result(r.data, 0, ErrFailedIncrement) ELSE r

RedisDecrementOp(rd, cfg, k, delta, t) ==
    LET r == ClientDecrBy(rd, getKey(cfg, k), delta, t) IN
    IF r.err # OK THEN Result(r.data, 0, ErrFailedDecrement) ELSE r

\* only the error of the command is looked at
RedisExpireOp(rd, cfg, k, ttl, t) ==
    LET r == ClientExpire(rd, getKey(cfg, k), ttl, t) IN Result(r.data, Nil, r.err)

RedisTTLOp(rd, cfg, k, t) == ClientTTL(rd, getKey(cfg, k), t)

(***************************************************************************)
(* The remote engine, sequential calls.                                    *)
(***************************************************************************)
Prefixes == {"", "app"}

InitRedis ==
    /\ data = EmptyMap
    /\ now = StartTime
    /\ last = NoCall
    /\ calls = 0
    /\ stamp = [k \in Keys |-> NoStamp]
    /\ config \in [Prefix : Prefixes]
    /\ rdata = EmptyMap
    /\ pipe = NoPipe
    /\ ConcInit
    /\ OutsideInit

\* what the remote store holds for a key when a call starts
RWas(k) == IF RLookup(rdata, getKey(config, k), now).found THEN "live"
           ELSE IF getKey(config, k) \in DOMAIN rdata THEN "expired"
           ELSE "absent"

RCall(op, k, args, r) ==
    [op |-> op, key |-> k, args |-> args, at |-> now, was |-> RWas(k),
     ret |-> r.ret, err |-> r.err]

RApply(op, k, args, r) ==
    /\ calls < MaxCalls
    /\ rdata' = r.data
    /\ last' = RCall(op, k, args, r)
    /\ calls' = calls + 1
    /\ UNCHANGED <<now, config, outside, pipe, inProcess, conc>>

RedisGet(k) == RApply("Get", k, Nil, RedisGetOp(rdata, config, k, now))

RedisSet(k, val, ttl) ==
    RApply("Set", k, [value |-> val, ttl |-> ttl], RedisSetOp(rdata, config, k, val, ttl, now))

RedisDelete(k) == RApply("Delete", k, Nil, RedisDeleteOp(rdata, config, k, now))

RedisExists(k) == RApply("Exists", k, Nil, RedisExistsOp(rdata, config, k, now))

RedisIncrement(k, delta) ==
    RApply("Increment", k, [delta |-> delta], RedisIncrementOp(rdata, config, k, delta, now))

RedisDecrement(k, delta) ==
    RApply("Decrement", k, [delta |-> delta], RedisDecrementOp(rdata, config, k, delta, now))

RedisExpire(k, ttl) ==
    RApply("Expire", k, [ttl |-> ttl], RedisExpireOp(rdata, config, k, ttl, now))

RedisTTL(k) == RApply("TTL", k, Nil, RedisTTLOp(rdata, config, k, now))

NextRedis ==
    \/ \E k \in Keys : RedisGet(k)
    \/ \E k \in Keys, val \in SetValues, ttl \in Durations : RedisSet(k, val, ttl)
    \/ \E k \in Keys : RedisDelete(k)
    \/ \E k \in Keys : RedisExists(k)
    \/ \E k \in Keys, delta \in Deltas : RedisIncrement(k, delta)
    \/ \E k \in Keys, delta \in Deltas : RedisDecrement(k, delta)
    \/ \E k \in Keys, ttl \in Durations : RedisExpire(k, ttl)
    \/ \E k \in Keys : RedisTTL(k)
    \/ Tick

SpecRedis == InitRedis /\ [][NextRedis]_vars

(***************************************************************************)
(* Properties claimed of both engines, on the remote engine.               *)
(***************************************************************************)
\* C8: Expire(k, ttl) on a live key sets its expiry and returns no error;
\* on an absent or expired key it returns a not-found error and creates no
\* entry.
C8_ExpireNotFound ==
    LET rk == getKey(config, last.key) IN
    last.op = "Expire" =>
       /\ last.was = "live" =>
             /\ last.err = OK
             /\ rk \in DOMAIN rdata
             /\ rdata[rk].expireAt = last.at + last.args.ttl
       /\ last.was # "live" =>
             /\ last.err = ErrKeyNotFound
             /\ rk \notin DOMAIN rdata

\* C9: TTL(k) returns the remaining duration of a live key with an expiry, -1
\* without error for a live key without expiry and a not-found error for an
\* absent or expired key: never a successful result for an absent key.
C9_TTLOutcomes ==
    LET rk == getKey(config, last.key) IN
    last.op = "TTL" =>
       /\ last.was # "live" => last.err = ErrKeyNotFound
       /\ last.was = "live" =>
             /\ last.err = OK
             /\ last.ret = IF rdata[rk].expireAt = ZeroTime THEN -1
                           ELSE rdata[rk].expireAt - last.at

(***************************************************************************)
(* The in-process engine under concurrent callers.  A method is a sequence *)
(* of steps: it takes the lock (Lock or RLock), reads the table and the    *)
(* clock, writes the table, and releases the lock.                         *)
(***************************************************************************)
\* the methods that take the write lock (Lock) and the read lock (RLock)
WriteMethods == {"Set", "Delete", "Increment", "MSet", "MDelete", "cleanup"}
ReadMethods == {"Get", "Exists", "MGet"}

\* the method called on table d at time t
RunOp(c, d, t) ==
    CASE c.op = "Get" -> GetOp(d, c.key, t)
      [] c.op = "Exists" -> ExistsOp(d, c.key, t)
      [] c.op = "Set" -> SetOp(d, c.key, c.args.value, c.args.ttl, t)
      [] c.op = "Delete" -> DeleteOp(d, c.key)
      [] c.op = "Increment" -> IncrementOp(d, c.key, c.args.delta, t)
      [] c.op = "MSet" -> MSetOp(d, c.args.pairs, c.args.ttl, t)
      [] c.op = "MDelete" -> MDeleteOp(d, c.args.keys)
      [] c.op = "cleanup" -> Result(CleanupOp(d, t), Nil, OK)

\* the keys a method that read the table as "before" and computed r has to
\* store or delete
ToWrite(before, r) ==
    {k \in (DOMAIN before) \cup (DOMAIN r.data) :
        \/ k \notin DOMAIN r.data
        \/ k \notin DOMAIN before
        \/ r.data[k] # before[k]}

\* the table d after the method's write of key k: m.data[key] = item, or
\* delete(m.data, key)
Written(d, k, r) == IF k \in DOMAIN r.data THEN MapPut(d, k, r.data[k]) ELSE MapDelete(d, k)

\* a Lock that does not wait for the writer that has the mutex
WriterFreeAlways(m) == TRUE

\* Lock: no other writer has the mutex
WriterFree(m) == m.w = NoThread

\* a Lock that does not wait for the readers to leave
ReadersGoneAlways(m) == TRUE

\* Lock: the readers have left
ReadersGone(m) == m.readers = {}

\* an RLock that does not wait for the writer
ReadersAdmittedAlways(m) == TRUE

\* RLock: no writer holds the mutex or waits for it
ReadersAdmitted(m) == m.w = NoThread

\* the goroutines inside a critical section, and those writing the table
InCriticalSection(t) ==
    th[t].pc \in {"locked", "writing", "unlocking", "rlocked", "deleting", "runlocking"}
Mutating(t) == th[t].pc \in {"writing", "deleting"}

ConcCall(op, k, args) ==
    [op |-> op, key |-> k, args |-> args, at |-> now, was |-> "", ret |-> Nil, err |-> OK]

\* a caller starts a method
Invoke(t, c) ==
    /\ ~crashed
    /\ th[t].pc = "idle"
    /\ calls < MaxCalls
    /\ th' = [th EXCEPT ![t] = [pc |-> "call", call |-> c,
                                read |-> IF c.op = "MGet"
                                         THEN [NoResult EXCEPT !.ret = <<>>] ELSE NoResult,
                                res |-> NoResult]]
    /\ calls' = calls + 1
    /\ UNCHANGED <<data, now, last, stamp, remote, outside, mutex, base, crashed>>

\* the ticker of the cleanup goroutine fires
SweepTick ==
    /\ ~crashed
    /\ th[Sweeper].pc = "idle"
    /\ \E k \in DOMAIN data : Expired(data[k], now)
    /\ th' = [th EXCEPT ![Sweeper] = [pc |-> "call", call |-> ConcCall("cleanup", "", Nil),
                                      read |-> NoResult, res |-> NoResult]]
    /\ UNCHANGED <<data, now, last, calls, stamp, remote, outside, mutex, base, crashed>>

\* m.mutex.Lock(): the writer announces itself ...
Lock(t) ==
    /\ ~crashed
    /\ th[t].pc = "call" /\ th[t].call.op \in WriteMethods
    /\ WriterFree(mutex)
    /\ mutex' = [mutex EXCEPT !.w = t]
    /\ th' = [th EXCEPT ![t].pc = "waiting"]
    /\ UNCHANGED <<data, now, last, calls, stamp, remote, outside, base, crashed>>

\* ... and holds the lock once the readers have left
LockAcquired(t) ==
    /\ ~crashed
    /\ th[t].pc = "waiting"
    /\ ReadersGone(mutex)
    /\ mutex' = [mutex EXCEPT !.held = TRUE]
    /\ th' = [th EXCEPT ![t].pc = "locked"]
    /\ UNCHANGED <<data, now, last, calls, stamp, remote, outside, base, crashed>>

\* the method reads the entry and the clock and computes what it will store
WriteRead(t) ==
    /\ ~crashed
    /\ th[t].pc = "locked"
    /\ th' = [th EXCEPT ![t].pc = "writing",
                        ![t].read = [data |-> data, ret |-> Nil, err |-> OK],
                        ![t].res = RunOp(th[t].call, data, now)]
    /\ base' = IF th[t].call.op = "Increment" /\ ~base.set
               THEN [set |-> TRUE,
                     v |-> IF Live(data, th[t].call.key, now)
                              /\ data[th[t].call.key].value.t \in {"int", "int64"}
                           THEN data[th[t].call.key].value.v ELSE 0]
               ELSE base
    /\ UNCHANGED <<data, now, last, calls, stamp, remote, outside, mutex, crashed>>

\* the method stores or deletes an entry: one map write at a time, until
\* the table holds what the method computed
WriteStore(t) ==
    /\ ~crashed
    /\ th[t].pc = "writing"
    /\ LET pending == ToWrite(th[t].read.data, th[t].res)
           finished == [th EXCEPT ![t].pc = "unlocking", ![t].read = NoResult,
                                  ![t].res = [data |-> EmptyMap, ret |-> th[t].res.ret,
                                              err |-> th[t].res.err]]
       IN IF pending = {}
          THEN /\ data' = data
               /\ th' = finished
          ELSE \E k \in pending :
                  /\ data' = Written(data, k, th[t].res)
                  /\ th' = IF pending = {k} THEN finished
                           ELSE [th EXCEPT ![t].read.data = Written(@, k, th[t].res)]
    /\ UNCHANGED <<now, last, calls, stamp, remote, outside, mutex, base, crashed>>

\* defer m.mutex.Unlock()
Unlock(t) ==
    /\ ~crashed
    /\ th[t].pc = "unlocking"
    /\ mutex' = [mutex EXCEPT !.w = NoThread, !.held = FALSE]
    /\ th' = [th EXCEPT ![t].pc = IF t = Sweeper THEN "idle" ELSE "done"]
    /\ UNCHANGED <<data, now, last, calls, stamp, remote, outside, base, crashed>>

\* m.mutex.RLock()
RLock(t) ==
    /\ ~crashed
    /\ th[t].pc = "call" /\ th[t].call.op \in ReadMethods
    /\ ReadersAdmitted(mutex)
    /\ mutex' = [mutex EXCEPT !.readers = @ \cup {t}]
    /\ th' = [th EXCEPT ![t].pc = "rlocked"]
    /\ UNCHANGED <<data, now, last, calls, stamp, remote, outside, base, crashed>>

\* the reader looks the key up and tests its expiration; an expired entry is
\* to be deleted next.  MGet does so for one key after the other.
ReadEntry(t) ==
    /\ ~crashed
    /\ th[t].pc = "rlocked"
    /\ IF th[t].call.op = "MGet"
       THEN LET ks == th[t].call.args.keys
                i == Len(th[t].read.ret) + 1
                l == Lookup(data, ks[i], now)
                values == Append(th[t].read.ret,
                                 IF l.found THEN data[ks[i]].value ELSE Nil)
            IN th' = [th EXCEPT ![t].pc = IF l.data # data THEN "deleting"
                                          ELSE IF i = Len(ks) THEN "runlocking"
                                          ELSE "rlocked",
                                ![t].read.ret = values,
                                ![t].res = [data |-> EmptyMap, ret |-> values, err |-> OK]]
       ELSE LET r == RunOp(th[t].call, data, now) IN
            th' = [th EXCEPT ![t].pc = IF r.data # data THEN "deleting" ELSE "runlocking",
                             ![t].res = [data |-> EmptyMap, ret |-> r.ret, err |-> r.err]]
    /\ UNCHANGED <<data, now, last, calls, stamp, remote, outside, mutex, base, crashed>>

\* delete(m.data, key) by a reader
LazyDelete(t) ==
    /\ ~crashed
    /\ th[t].pc = "deleting"
    /\ IF th[t].call.op = "MGet"
       THEN LET ks == th[t].call.args.keys
                i == Len(th[t].read.ret)
            IN /\ data' = MapDelete(data, ks[i])
               /\ th' = [th EXCEPT ![t].pc = IF i = Len(ks) THEN "runlocking" ELSE "rlocked"]
       ELSE /\ data' = MapDelete(data, th[t].call.key)
            /\ th' = [th EXCEPT ![t].pc = "runlocking"]
    /\ UNCHANGED <<now, last, calls, stamp, remote, outside, mutex, base, crashed>>

\* the Go runtime finds the map written while another goroutine uses it:
\* "fatal error: concurrent map read and map write"
Fatal(t) ==
    /\ ~crashed
    /\ Mutating(t)
    /\ \E u \in (DOMAIN th) \ {t} : InCriticalSection(u)
    /\ crashed' = TRUE
    /\ UNCHANGED <<data, now, last, calls, stamp, remote, outside, mutex, base, th>>

\* defer m.mutex.RUnlock()
RUnlock(t) ==
    /\ ~crashed
    /\ th[t].pc = "runlocking"
    /\ mutex' = [mutex EXCEPT !.readers = @ \ {t}]
    /\ th' = [th EXCEPT ![t].pc = "done"]
    /\ UNCHANGED <<data, now, last, calls, stamp, remote, outside, base, crashed>>

\* the caller has its results and may call again
Return(t) ==
    /\ ~crashed
    /\ th[t].pc = "done"
    /\ calls < MaxCalls
    /\ th' = [th EXCEPT ![t].pc = "idle"]
    /\ UNCHANGED <<data, now, last, calls, stamp, remote, outside, mutex, base, crashed>>

ConcCalls ==
    {ConcCall("Get", k, Nil) : k \in {"k1"}}
    \cup {ConcCall("Exists", k, Nil) : k \in {"k1"}}
    \cup {ConcCall("Set", k, [value |-> GoString(<<"a">>), ttl |-> 1]) : k \in {"k1"}}
    \cup {ConcCall("Delete", k, Nil) : k \in {"k1"}}
    \cup {ConcCall("Increment", k, [delta |-> 1]) : k \in {"k1"}}

NextConc ==
    \/ \E t \in Callers, c \in ConcCalls : Invoke(t, c)
    \/ SweepTick
    \/ \E t \in DOMAIN th : Lock(t)
    \/ \E t \in DOMAIN th : LockAcquired(t)
    \/ \E t \in DOMAIN th : WriteRead(t)
    \/ \E t \in DOMAIN th : WriteStore(t)
    \/ \E t \in DOMAIN th : Unlock(t)
    \/ \E t \in Callers : RLock(t)
    \/ \E t \in Callers : ReadEntry(t)
    \/ \E t \in Callers : LazyDelete(t)
    \/ \E t \in Callers : Fatal(t)
    \/ \E t \in Callers : RUnlock(t)
    \/ \E t \in Callers : Return(t)
    \/ Tick

SpecConc == Init /\ [][NextConc]_vars

\* C2: every mutation of the table, the lazy deletion of the reads included, is
\* made under the exclusive lock: in no reachable state does a goroutine write
\* the table while another goroutine is reading or writing it.
C2_MutationsExclusive ==
    \A t \in DOMAIN th :
       Mutating(t) => \A u \in (DOMAIN th) \ {t} : ~InCriticalSection(u)

(***************************************************************************)
(* Concurrent Increment: every caller calls Increment(CounterKey, 1) once, *)
(* and when all have returned the counter is read with Get.                *)
(***************************************************************************)
CounterKey == "k1"

\* the counter before the calls: absent, set with a ttl, or set to stay
StartTables ==
    {EmptyMap}
    \cup {MapPut(EmptyMap, CounterKey, Item(val, StartTime + 1)) : val \in {GoInt(0), GoInt(5)}}
    \cup {MapPut(EmptyMap, CounterKey, Item(GoInt64(5), ZeroTime))}

InitInc ==
    /\ data \in StartTables
    /\ now = StartTime
    /\ last = NoCall
    /\ calls = 0
    /\ stamp = [k \in Keys |-> NoStamp]
    /\ config = [Prefix |-> ""]
    /\ rdata = EmptyMap
    /\ pipe = NoPipe
    /\ ConcInit
    /\ OutsideInit

InvokeIncrement(t) ==
    /\ ~crashed
    /\ th[t].pc = "idle"
    /\ th' = [th EXCEPT ![t] = [pc |-> "call",
                                call |-> ConcCall("Increment", CounterKey, [delta |-> 1]),
                                read |-> NoResult, res |-> NoResult]]
    /\ UNCHANGED <<data, now, last, calls, stamp, remote, outside, mutex, base, crashed>>

\* the goroutines have all returned; Get holds the read lock from its lookup to
\* its return
FinalGet ==
    /\ ~crashed
    /\ \A t \in Callers : th[t].pc = "done"
    /\ last.op # "Get"
    /\ ReadersAdmitted(mutex)
    /\ LET r == GetOp(data, CounterKey, now) IN
       /\ data' = r.data
       /\ last' = Call("Get", CounterKey, Nil, r)
    /\ UNCHANGED <<now, calls, stamp, remote, outside, conc>>

NextInc ==
    \/ \E t \in Callers : InvokeIncrement(t)
    \/ SweepTick
    \/ \E t \in DOMAIN th : Lock(t)
    \/ \E t \in DOMAIN th : LockAcquired(t)
    \/ \E t \in DOMAIN th : WriteRead(t)
    \/ \E t \in DOMAIN th : WriteStore(t)
    \/ \E t \in DOMAIN th : Unlock(t)
    \/ FinalGet
    \/ Tick

SpecInc == InitInc /\ [][NextInc]_vars

\* the callers whose Increment has returned
Returned == {t \in Callers : th[t].pc = "done"}

\* C1: when the callers each call Increment(k, 1) concurrently, every call
\* succeeds, the values returned are the starting value plus 1, 2, ... with no
\* duplicates, and the final Get returns the starting value plus the number
\* of callers.  The starting value is the one the first Increment finds (0 for
\* a key that is absent or expired).
C1_NoLostUpdate ==
    /\ \A t \in Returned : th[t].res.err = OK
    /\ Returned # {} =>
          {th[t].res.ret : t \in Returned} \subseteq
              (base.v + 1) .. (base.v + Cardinality(Callers))
    /\ \A t, u \in Returned : t # u => th[t].res.ret # th[u].res.ret
    /\ (\A t \in Callers : th[t].pc \in {"idle", "call", "waiting", "done"}) =>
          \A n \in 1 .. Cardinality({t \in Callers : th[t].pc = "done"}) :
             \E t \in Returned : th[t].res.ret = base.v + n
    /\ last.op = "Get" =>
          /\ last.err = OK
          /\ last.ret = FormatInt(base.v + Cardinality(Callers))

C1_Witness ==
    /\ last.op = "Get"
    /\ base.v = 5
    /\ \A t \in Callers : th[t].pc = "done"

(***************************************************************************)
(* The batch calls and Delete on the in-process engine, with a key that is *)
(* never written.                                                          *)
(***************************************************************************)
BatchKeyLists == {<<"k1", "k2", "k3">>, <<"k2", "k1">>, <<"k1", "k1">>, <<"k3">>}
BatchPairs == {[k \in Keys |-> IF k = "k1" THEN GoString(<<"1">>) ELSE GoString(<<"2">>)],
               [k \in {"k2"} |-> GoInt(5)]}
BatchKeySets == {{"k1"}, {"k1", "k3"}, {}}

NextBatch ==
    \/ \E ks \in BatchKeyLists : MGet(ks)
    \/ \E pairs \in BatchPairs, ttl \in Durations : MSet(pairs, ttl)
    \/ \E ks \in BatchKeySets : MDelete(ks)
    \/ \E k \in Keys : Delete(k)
    \/ \E k \in Keys : Get(k)
    \/ \E k \in Keys : Exists(k)
    \/ \E k \in Keys, ttl \in Durations : Set(k, GoString(<<"a">>), ttl)
    \/ cleanup
    \/ Tick

SpecBatch == Init /\ [][NextBatch]_vars

\* the MGet whose results the next state holds read key ks[i] at times[i]
C11Step ==
    (IsCall /\ last'.op = "MGet") =>
       LET ks == last'.args.keys
           ts == last'.args.times
       IN /\ last'.err = OK
          /\ Len(last'.ret) = Len(ks)
          /\ \A i \in 1..Len(ks) :
                last'.ret[i] = IF Live(data, ks[i], ts[i]) THEN data[ks[i]].value ELSE Nil
          /\ (/\ last.op = "MSet"
              /\ last.args.pairs = [k \in Keys |-> IF k = "k1" THEN GoString(<<"1">>)
                                                   ELSE GoString(<<"2">>)]
              /\ last.args.ttl <= 0 \/ ts[Len(ks)] <= last.at + last.args.ttl
              /\ ks = <<"k1", "k2", "k3">>)
             => last'.ret = <<GoString(<<"1">>), GoString(<<"2">>), Nil>>

\* C11: MGet(k1..kn) returns exactly n results in input order, the value of ki
\* where ki is live and nil where ki is absent or expired, also when keys
\* repeat; after MSet({k1: "1", k2: "2"}, ttl), MGet(k1, k2, k3) returns
\* ["1", "2", nil].
C11_MGetInOrder == [][C11Step]_vars

\* MGet(k1, k2, k3) has returned the two values written and nil for k3
C11_Witness ==
    /\ last.op = "MGet"
    /\ last.args.keys = <<"k1", "k2", "k3">>
    /\ last.ret = <<GoString(<<"1">>), GoString(<<"2">>), Nil>>

(***************************************************************************)
(* The remote engine with two clients: one calls MSet, which sends its SET *)
(* commands in a pipeline (client.Pipeline(), no MULTI/EXEC), the other    *)
(* reads.  The store executes the commands of a pipeline one at a time and *)
(* serves other clients in between.                                        *)
(***************************************************************************)
\* MGET: the value of each key that holds a string, nil for the others
ClientMGet(rd, rks, t) ==
    Result([rk \in {x \in DOMAIN rd : x \notin Range(rks) \/ RLookup(rd, x, t).found} |-> rd[rk]],
           [i \in 1..Len(rks) |->
               IF RLookup(rd, rks[i], t).found /\ rd[rks[i]].value.t = "string"
               THEN rd[rks[i]].value ELSE Nil],
           OK)

RedisMGetOp(rd, cfg, ks, t) ==
    ClientMGet(rd, [i \in 1..Len(ks) |-> getKey(cfg, ks[i])], t)

RedisMGet(ks) == RApply("MGet", "", [keys |-> ks], RedisMGetOp(rdata, config, ks, now))

\* the orders in which "for key, value := range pairs" can visit the pairs
VisitOrders(pairs) ==
    {o \in [1..Cardinality(DOMAIN pairs) -> DOMAIN pairs] :
        \A i, j \in DOMAIN o : i # j => o[i] # o[j]}

\* RedisCache.MSet up to pipe.Exec: the SET commands are queued and sent
RedisMSetSend(pairs, ttl) ==
    /\ calls < MaxCalls
    /\ pipe.state = "none"
    /\ \E o \in VisitOrders(pairs) :
          pipe' = [state |-> "sent",
                   cmds |-> [i \in DOMAIN o |->
                               [rk |-> getKey(config, o[i]), text |-> serialize(pairs[o[i]]),
                                ttl |-> IF ttl > 0 THEN ttl ELSE 0]],
                   pairs |-> pairs, ttl |-> ttl, at |-> now, before |-> rdata]
    /\ calls' = calls + 1
    /\ UNCHANGED <<now, last, config, outside, rdata, inProcess, conc>>

\* the store executes the next command of the pipeline
StoreExec ==
    /\ pipe.state = "sent"
    /\ pipe.cmds # <<>>
    /\ LET c == Head(pipe.cmds) IN
       rdata' = ClientSet(rdata, c.rk, c.text, c.ttl, now).data
    /\ pipe' = [pipe EXCEPT !.cmds = Tail(@)]
    /\ UNCHANGED <<now, last, calls, config, outside, inProcess, conc>>

\* pipe.Exec returns the replies: MSet returns nil
RedisMSetReturn ==
    /\ pipe.state = "sent"
    /\ pipe.cmds = <<>>
    /\ pipe' = [pipe EXCEPT !.state = "done"]
    /\ UNCHANGED <<now, last, calls, config, outside, rdata, inProcess, conc>>

\* pipe.Exec returns an error (the context is cancelled or the connection is
\* lost before the replies are read): MSet returns "failed to mset keys"; the
\* commands the store has not received are not executed
RedisMSetFail ==
    /\ pipe.state = "sent"
    /\ pipe' = [pipe EXCEPT !.state = "failed", !.cmds = <<>>]
    /\ UNCHANGED <<now, last, calls, config, outside, rdata, inProcess, conc>>

PipePairs == {[k \in Keys |-> IF k = "k1" THEN GoString(<<"1">>) ELSE GoInt(2)]}
PipeStartTables(cfg) ==
    {EmptyMap, MapPut(EmptyMap, getKey(cfg, "k1"), RItem(GoString(<<"0">>), ZeroTime))}

InitPipe ==
    /\ data = EmptyMap
    /\ now = StartTime
    /\ last = NoCall
    /\ calls = 0
    /\ stamp = [k \in Keys |-> NoStamp]
    /\ config \in [Prefix : Prefixes]
    /\ rdata \in PipeStartTables(config)
    /\ pipe = NoPipe
    /\ ConcInit
    /\ OutsideInit

NextPipe ==
    \/ \E pairs \in PipePairs, ttl \in Durations : RedisMSetSend(pairs, ttl)
    \/ StoreExec
    \/ RedisMSetReturn
    \/ RedisMSetFail
    \/ \E ks \in KeyLists : RedisMGet(ks)
    \/ \E k \in Keys : RedisGet(k)
    \/ Tick

SpecPipe == InitPipe /\ [][NextPipe]_vars

\* what a reader finds for key k before the MSet and after all of it
BeforeMSet(k) ==
    IF getKey(config, k) \in DOMAIN pipe.before
    THEN pipe.before[getKey(config, k)].value ELSE Nil
AfterMSet(k) == GoString(serialize(pipe.pairs[k]))

\* C12: MSet on the remote engine is atomic for the caller: no reader (MGet of
\* another client) observes some but not all of the pairs of one MSet written,
\* and an MSet that fails leaves none of its pairs written.
C12_MSetAtomic ==
    /\ (/\ last.op = "MGet"
        /\ pipe.state # "none"
        /\ pipe.ttl <= 0 \/ last.at <= pipe.at + pipe.ttl) =>
          LET ks == last.args.keys
              mine == {i \in 1..Len(ks) : ks[i] \in DOMAIN pipe.pairs}
          IN \/ \A i \in mine : last.ret[i] = BeforeMSet(ks[i])
             \/ \A i \in mine : last.ret[i] = AfterMSet(ks[i])
    /\ pipe.state = "failed" =>
          \A k \in DOMAIN pipe.pairs :
             LET rk == getKey(config, k) IN
             IF rk \in DOMAIN pipe.before
             THEN rk \in DOMAIN rdata /\ rdata[rk] = pipe.before[rk]
             ELSE rk \notin DOMAIN rdata

(***************************************************************************)
(* MSet and MDelete on the in-process engine while other goroutines read.  *)
(***************************************************************************)
MSetPairs == [k \in Keys |-> IF k = "k1" THEN GoString(<<"1">>) ELSE GoString(<<"2">>)]

MSetCalls ==
    {ConcCall("MSet", "", [pairs |-> MSetPairs, ttl |-> ttl]) : ttl \in {0, 1}}
    \cup {ConcCall("MDelete", "", [keys |-> Keys]),
          ConcCall("MGet", "", [keys |-> <<"k1", "k2">>]),
          ConcCall("Get", "k1", Nil),
          ConcCall("Exists", "k2", Nil)}

NextMSet ==
    \/ \E t \in Callers, c \in MSetCalls : Invoke(t, c)
    \/ SweepTick
    \/ \E t \in DOMAIN th : Lock(t)
    \/ \E t \in DOMAIN th : LockAcquired(t)
    \/ \E t \in DOMAIN th : WriteRead(t)
    \/ \E t \in DOMAIN th : WriteStore(t)
    \/ \E t \in DOMAIN th : Unlock(t)
    \/ \E t \in Callers : RLock(t)
    \/ \E t \in Callers : ReadEntry(t)
    \/ \E t \in Callers : LazyDelete(t)
    \/ \E t \in Callers : Fatal(t)
    \/ \E t \in Callers : RUnlock(t)
    \/ \E t \in Callers : Return(t)
    \/ Tick

SpecMSet == Init /\ [][NextMSet]_vars

\* a goroutine between Lock and Unlock
InWriteSection(t) == th[t].pc \in {"locked", "writing", "unlocking"}

RECURSIVE DeleteEach(_, _)
DeleteEach(d, ks) ==
    IF ks = {} THEN d
    ELSE LET k == CHOOSE x \in ks : TRUE IN DeleteEach(DeleteOp(d, k).data, ks \ {k})

C14Step ==
    /\ (IsCall /\ last'.op = "Delete") =>
          /\ last'.err = OK
          /\ last'.key \notin DOMAIN data'
          /\ \A k \in DOMAIN data : k # last'.key => (k \in DOMAIN data' /\ data'[k] = data[k])
          /\ DOMAIN data' \subseteq DOMAIN data
          /\ last'.key \notin DOMAIN data => data' = data
          /\ DeleteOp(data', last'.key) = DeleteOp(data, last'.key)
    /\ (IsCall /\ last.op = "Delete" /\ last'.key = last.key) =>
          /\ last'.op = "Exists" => (last'.err = OK /\ last'.ret = FALSE)
          /\ last'.op = "Get" => last'.err = ErrKeyNotFound
          /\ last'.op = "Delete" => (last'.err = last.err /\ data' = data)
    /\ (IsCall /\ last'.op = "MDelete") =>
          /\ last'.err = OK
          /\ data' = DeleteEach(data, last'.args.keys)
          /\ \A k \in (DOMAIN data) \ last'.args.keys :
                k \in DOMAIN data' /\ data'[k] = data[k]

\* C14: Delete(k) on an absent key returns no error and leaves the table
\* unchanged; after Delete(k), Exists(k) is false and Get(k) is not found;
\* Delete(k) twice has the result and the final state of Delete(k) once; MDelete
\* has the effect of Delete on each listed key and leaves the other keys
\* unchanged.
C14_DeleteIdempotent == [][C14Step]_vars

\* the Delete of a key that is not in the table has returned
C14_Witness ==
    /\ last.op = "Delete" /\ last.was = "absent" /\ last.err = OK
    /\ calls = MaxCalls

(***************************************************************************)
(* The hash calls on the in-process engine.                                *)
(***************************************************************************)
HashFields == {"f1", "f2"}
HashValues == {GoString(<<"x">>), GoInt(7)}
HashPairs == UNION {[fs -> HashValues] : fs \in (SUBSET HashFields) \ {{}}}
HashFieldSets == {{"f1"}, HashFields, {}}

NextHash ==
    \/ \E k \in Keys, pairs \in HashPairs : HSet(k, pairs)
    \/ \E k \in Keys, fields \in HashFieldSets : HDelete(k, fields)
    \/ \E k \in Keys, f \in HashFields : HGet(k, f)
    \/ \E k \in Keys : HGetAll(k)
    \/ \E k \in Keys, ttl \in Durations : Expire(k, ttl)
    \/ cleanup
    \/ Tick

SpecHash == Init /\ [][NextHash]_vars

\* the hash a caller finds under key k: empty when k is absent or expired
HashAt(d, k, t) == IF Live(d, k, t) /\ IsHash(d[k].value) THEN d[k].value.v ELSE EmptyMap

C15Step ==
    LET k == last'.key
        h == HashAt(data, k, now)
        h2 == HashAt(data', k, now)
    IN
    /\ (IsCall /\ last'.op = "HSet") =>
          /\ last'.err = OK
          /\ Live(data', k, now) /\ IsHash(data'[k].value)
          /\ DOMAIN h2 = (DOMAIN h) \cup (DOMAIN last'.args.pairs)
          /\ \A f \in DOMAIN h2 :
                h2[f] = IF f \in DOMAIN last'.args.pairs THEN last'.args.pairs[f] ELSE h[f]
          /\ ~Live(data, k, now) => h2 = last'.args.pairs
    /\ (IsCall /\ last'.op = "HDelete" /\ Live(data, k, now)) =>
          /\ last'.err = OK
          /\ DOMAIN h2 = (DOMAIN h) \ last'.args.fields
          /\ \A f \in DOMAIN h2 : h2[f] = h[f]
    /\ (IsCall /\ last'.op = "HGetAll" /\ Live(data, k, now)) =>
          /\ last'.err = OK
          /\ DOMAIN last'.ret = DOMAIN h
          /\ \A f \in DOMAIN h : last'.ret[f] = Sprint(h[f])
          /\ data' = data
    /\ (IsCall /\ last'.op = "HGet") =>
          /\ last'.args.field \in DOMAIN h =>
                (last'.err = OK /\ last'.ret = Sprint(h[last'.args.field]))
          /\ last'.args.field \notin DOMAIN h => last'.err # OK
          /\ (last.op = "HSet" /\ last.key = k /\ Live(data, k, now)
              /\ last'.args.field \in DOMAIN last.args.pairs) =>
                (last'.err = OK
                 /\ last'.ret = Sprint(last.args.pairs[last'.args.field]))
          /\ (last.op = "HDelete" /\ last.key = k /\ last'.args.field \in last.args.fields) =>
                last'.err # OK
    /\ (IsCall /\ last'.op \in {"HGet", "HGetAll", "HDelete"} /\ ~Live(data, k, now)) =>
          last'.err = ErrKeyNotFound

\* C15: HSet on an absent key creates a new hash; after HSet and HDelete calls
\* on k, HGetAll(k) returns exactly the fields set and not later deleted, each
\* with the text of its most recently set value; HGet(k, f) returns that text
\* for a present field and an error for a field never set or deleted; HDelete
\* removes only the listed fields.
C15_HashFields == [][C15Step]_vars

\* HGetAll has returned the one field the hash holds, with the text of its value
C15_Witness ==
    /\ last.op = "HGetAll" /\ last.err = OK
    /\ DOMAIN last.ret = {"f2"}
    /\ last.ret["f2"] = <<"7">>

\* the shape each method expects of the value, and the error that names it
HashMethods == {"HGet", "HGetAll", "HDelete"}
ListMethods == {"LPop", "RPop", "LRange"}
SetMethods == {"SRem", "SMembers", "SIsMember"}

\* the key holds a live value of another shape than the method op expects
WrongShape(op, k) ==
    /\ Live(data, k, now)
    /\ \/ op \in HashMethods \cup {"HSet"} /\ ~IsHash(data[k].value)
       \/ op \in ListMethods \cup {"LPush", "RPush"} /\ ~IsList(data[k].value)
       \/ op \in SetMethods \cup {"SAdd"} /\ ~IsSet(data[k].value)

WrongShapeError(op) ==
    IF op \in HashMethods \cup {"HSet"} THEN ErrNotHash
    ELSE IF op \in ListMethods \cup {"LPush", "RPush"} THEN ErrNotList
    ELSE ErrNotSet

C16Step ==
    /\ (IsCall /\ last'.op \in HashMethods \cup ListMethods \cup SetMethods
        /\ WrongShape(last'.op, last'.key)) =>
          /\ last'.err # OK
          /\ data' = data
    /\ (IsCall /\ last'.op \in {"Increment", "Decrement"} /\ Live(data, last'.key, now)
        /\ data[last'.key].value.t \notin {"int", "int64", "float64"}) =>
          /\ last'.err = ErrNotNumeric
          /\ data' = data

\* C16: a read or removal applied to a live key whose value has another shape
\* (HGet, HGetAll, HDelete on a non-hash; LPop, RPop, LRange on a non-list;
\* SRem, SMembers, SIsMember on a non-set) and Increment on a non-numeric value
\* return an error and leave the entry's value and expiry unchanged.
C16_WrongShapeReads == [][C16Step]_vars

\* LPop of a key that holds a scalar with an expiration has returned its error
C16_Witness ==
    /\ last.op = "LPop" /\ last.err = ErrListEmpty
    /\ last.key \in DOMAIN data
    /\ data[last.key].value.t = "string"
    /\ data[last.key].expiration # ZeroTime

C17Step ==
    (IsCall
     /\ last'.op \in HashMethods \cup ListMethods \cup SetMethods
                     \cup {"HSet", "LPush", "RPush", "SAdd"}
     /\ WrongShape(last'.op, last'.key)) =>
       /\ last'.err = WrongShapeError(last'.op)
       /\ data' = data

\* C17: every method that expects a hash, a list or a set, the writers HSet,
\* LPush, RPush and SAdd included, returns the wrong-type error when the key
\* holds a live value of another shape, and does not replace or discard that
\* value.
C17_WrongShapeEverywhere == [][C17Step]_vars

(***************************************************************************)
(* The list calls on the in-process engine.                                *)
(***************************************************************************)
ListValues == {<<>>, <<GoString(<<"x">>)>>, <<GoString(<<"y">>)>>,
               <<GoString(<<"a">>), GoString(<<"b">>), GoInt(7)>>}
Indexes == -4 .. 4

NextList ==
    \/ \E k \in Keys, values \in ListValues : LPush(k, values)
    \/ \E k \in Keys, values \in ListValues : RPush(k, values)
    \/ \E k \in Keys : LPop(k)
    \/ \E k \in Keys : RPop(k)
    \/ \E k \in Keys, i, j \in Indexes : LRange(k, i, j)
    \/ \E k \in Keys, ttl \in Durations : Expire(k, ttl)
    \/ cleanup
    \/ Tick

SpecList == Init /\ [][NextList]_vars

\* the key holds a live list
LiveList(d, k, t) == Live(d, k, t) /\ IsList(d[k].value)

\* the list a caller finds under key k: empty when k is absent or expired
ListAt(d, k, t) == IF LiveList(d, k, t) THEN d[k].value.v ELSE <<>>

C18Step ==
    LET k == last'.key
        l == ListAt(data, k, now)
        l2 == ListAt(data', k, now)
        n == Len(l)
    IN
    /\ (IsCall /\ last'.op = "RPush") =>
          LET vs == last'.args.values IN
          /\ last'.err = OK /\ LiveList(data', k, now)
          /\ Len(l2) = n + Len(vs)
          /\ \A i \in 1..n : l2[i] = l[i]
          /\ \A j \in 1..Len(vs) : l2[n + j] = vs[j]
          /\ (last.op = "LPush" /\ last.key = k /\ last.was # "live" /\ Live(data, k, now)
              /\ Len(last.args.values) = 1 /\ Len(vs) = 1) =>
                l2 = <<last.args.values[1], vs[1]>>
    /\ (IsCall /\ last'.op = "LPush") =>
          LET vs == last'.args.values IN
          /\ last'.err = OK /\ LiveList(data', k, now)
          /\ Len(l2) = Len(vs) + n
          /\ \A j \in 1..Len(vs) : l2[j] = vs[Len(vs) + 1 - j]
          /\ \A i \in 1..n : l2[Len(vs) + i] = l[i]
    /\ (IsCall /\ last'.op = "LPop" /\ LiveList(data, k, now) /\ n > 0) =>
          /\ last'.err = OK /\ last'.ret = Sprint(l[1])
          /\ Len(l2) = n - 1
          /\ \A i \in 1..(n - 1) : l2[i] = l[i + 1]
    /\ (IsCall /\ last'.op = "RPop" /\ LiveList(data, k, now) /\ n > 0) =>
          /\ last'.err = OK /\ last'.ret = Sprint(l[n])
          /\ Len(l2) = n - 1
          /\ \A i \in 1..(n - 1) : l2[i] = l[i]
    /\ (IsCall /\ last'.op \in {"LPop", "RPop"} /\ LiveList(data, k, now) /\ n = 0) =>
          /\ last'.err # OK
          /\ data' = data
    /\ (IsCall /\ last'.op = "LRange" /\ LiveList(data, k, now)
        /\ last'.args.start = 0 /\ last'.args.stop = -1) =>
          /\ last'.err = OK
          /\ last'.ret = [i \in 1..n |-> Sprint(l[i])]

\* C18: RPush(k, v1..vn) appends v1..vn at the tail in argument order, LPush
\* inserts each value at the head in argument order (vn ends up first), LPop
\* removes and returns the head, RPop the tail, a pop on an empty list returns
\* an error and changes nothing; LPush(L, x), RPush(L, y), LRange(L, 0, -1)
\* returns [x, y].
C18_ListEnds == [][C18Step]_vars

\* LRange(k, 0, -1) has returned the two elements of a list in order
C18_Witness ==
    /\ last.op = "LRange" /\ last.err = OK
    /\ last.args.start = 0 /\ last.args.stop = -1
    /\ last.ret = <<<<"x">>, <<"y">>>>
    /\ calls = MaxCalls

\* position i (from 0) of a list of length n that index x means
Position(x, n) == IF x < 0 THEN n + x ELSE x

C19Step ==
    (IsCall /\ last'.op = "LRange" /\ LiveList(data, last'.key, now)) =>
       LET l == data[last'.key].value.v
           n == Len(l)
           first == IF Position(last'.args.start, n) < 0 THEN 0
                    ELSE Position(last'.args.start, n)
           end == IF Position(last'.args.stop, n) > n - 1 THEN n - 1
                  ELSE Position(last'.args.stop, n)
       IN /\ last'.err = OK
          /\ data' = data
          /\ first > end => last'.ret = <<>>
          /\ first <= end =>
                /\ 0 <= first /\ end <= n - 1
                /\ Len(last'.ret) = end - first + 1
                /\ \A i \in first..end : last'.ret[i - first + 1] = Sprint(l[i + 1])

\* C19: for every existing list of length n (n = 0 included) and every start
\* and stop, LRange returns no error and does not modify the list: a negative
\* index i means n + i, start is clamped up to 0 and stop down to n - 1, the
\* result is the elements at positions start..stop in list order, and the empty
\* sequence when start > stop after clamping.
C19_LRangeClamped == [][C19Step]_vars

\* LRange(k, -2, 4) of a list of three has returned its last two elements
C19_Witness ==
    /\ last.op = "LRange" /\ last.err = OK
    /\ last.args.start = -2 /\ last.args.stop = 4
    /\ last.ret = <<<<"b">>, <<"7">>>>

(***************************************************************************)
(* The set calls on the in-process engine.  The members are Go values: the *)
(* string "7" and the int 7 are two members with one text.                 *)
(***************************************************************************)
SetElems == {GoString(<<"x">>), GoString(<<"7">>), GoInt(7)}
SetArgs == {<<>>, <<GoString(<<"x">>)>>, <<GoInt(7)>>, <<GoString(<<"7">>), GoString(<<"x">>)>>,
            <<GoString(<<"x">>), GoString(<<"x">>)>>}
SetOrders == {o \in [1..Cardinality(SetElems) -> SetElems] :
                 \A i, j \in DOMAIN o : i # j => o[i] # o[j]}

NextSet ==
    \/ \E k \in Keys, members \in SetArgs : SAdd(k, members)
    \/ \E k \in Keys, members \in SetArgs : SRem(k, members)
    \/ \E k \in Keys, order \in SetOrders : SMembers(k, order)
    \/ \E k \in Keys, member \in SetElems : SIsMember(k, member)
    \/ \E k \in Keys, ttl \in Durations : Expire(k, ttl)
    \/ cleanup
    \/ Tick

SpecSet == Init /\ [][NextSet]_vars

\* the key holds a live set
LiveSet(d, k, t) == Live(d, k, t) /\ IsSet(d[k].value)

\* the set a caller finds under key k: empty when k is absent or expired
SetAt(d, k, t) == IF LiveSet(d, k, t) THEN d[k].value.v ELSE {}

C20Step ==
    LET k == last'.key
        set == SetAt(data, k, now)
        set2 == SetAt(data', k, now)
    IN
    /\ (IsCall /\ last'.op = "SAdd") =>
          /\ last'.err = OK /\ LiveSet(data', k, now)
          /\ set2 = set \cup Range(last'.args.members)
          /\ (LiveSet(data, k, now) /\ Range(last'.args.members) \subseteq set) => data' = data
    /\ (IsCall /\ last'.op = "SRem" /\ LiveSet(data, k, now)) =>
          /\ last'.err = OK
          /\ set2 = set \ Range(last'.args.members)
          /\ Range(last'.args.members) \cap set = {} => data' = data
    /\ (IsCall /\ last'.op = "SIsMember" /\ LiveSet(data, k, now)) =>
          /\ last'.err = OK
          /\ last'.ret = (last'.args.member \in set)
          /\ data' = data
          /\ (last.op = "SAdd" /\ last.key = k
              /\ last'.args.member \in Range(last.args.members)) => last'.ret = TRUE
          /\ (last.op = "SRem" /\ last.key = k
              /\ last'.args.member \in Range(last.args.members)) => last'.ret = FALSE
    /\ (IsCall /\ last'.op = "SMembers" /\ LiveSet(data, k, now)) =>
          /\ last'.err = OK
          /\ Len(last'.ret) = Cardinality(set)
          /\ \E o \in SetOrders :
                last'.ret = MembersIn(set, o)
          /\ \A m \in set :
                Cardinality({i \in 1..Len(last'.ret) : last'.ret[i] = Sprint(m)})
                   = Cardinality({x \in set : Sprint(x) = Sprint(m)})

\* C20: SAdd is idempotent (adding a member already present leaves the set
\* unchanged and SMembers lists every member once), after SAdd(k, m)
\* SIsMember(k, m) is true, after SRem(k, m) it is false, SRem of a non-member
\* changes nothing, and SIsMember of a value never added to an existing set
\* returns false without error.
C20_SetMembership == [][C20Step]_vars

\* SAdd has added "x" twice to a live set that held 7: the set holds "x" once
C20_Witness ==
    /\ last.op = "SAdd" /\ last.err = OK /\ last.was = "live"
    /\ last.args.members = <<GoString(<<"x">>), GoString(<<"x">>)>>
    /\ LiveSet(data, last.key, now)
    /\ data[last.key].value.v = {GoInt(7), GoString(<<"x">>)}

(***************************************************************************)
(* Close, on both engines.  The two engines of a behaviour never interact. *)
(***************************************************************************)
\* the error of go-redis for a pool that has been closed
ErrClosed == "redis: client is closed"

\* MemoryCache.Close
CloseOp(d) == Result(d, Nil, OK)

\* redis.Client.Close: the pool is closed by the first call only, a later call
\* finds it closed
ClientClose(c) ==
    IF c.closed THEN [client |-> c, err |-> ErrClosed]
    ELSE [client |-> [closed |-> TRUE, released |-> c.released + 1], err |-> OK]

\* RedisCache.Close
RedisCloseOp(c) == ClientClose(c)

Close ==
    /\ calls < MaxCalls
    /\ data' = CloseOp(data).data
    /\ closes' = closes + 1
    /\ last' = Call("Close", "", [engine |-> "memory"], CloseOp(data))
    /\ calls' = calls + 1
    /\ UNCHANGED <<now, stamp, remote, client, engine, jwt, rest, conc>>

RedisClose ==
    /\ calls < MaxCalls
    /\ client' = RedisCloseOp(client).client
    /\ last' = [op |-> "Close", key |-> "", args |-> [engine |-> "redis"], at |-> now,
                was |-> "", ret |-> Nil, err |-> RedisCloseOp(client).err]
    /\ calls' = calls + 1
    /\ UNCHANGED <<now, remote, closes, engine, jwt, rest, inProcess, conc>>

\* the calls made between two Close calls; the remote engine is not called
\* once its client is closed
NextClose ==
    \/ Close
    \/ RedisClose
    \/ \E k \in Keys, ttl \in Durations : Set(k, GoString(<<"a">>), ttl)
    \/ \E k \in Keys : Get(k)
    \/ \E k \in Keys, ttl \in Durations : ~client.closed /\ RedisSet(k, GoString(<<"a">>), ttl)
    \/ \E k \in Keys : ~client.closed /\ RedisGet(k)
    \/ Tick

SpecClose == InitRedis /\ [][NextClose]_vars

C21Step ==
    (IsCall /\ last'.op = "Close") =>
       /\ (last'.args.engine = "memory" /\ closes >= 1) =>
             last'.err = OK /\ data' = data
       /\ (last'.args.engine = "redis" /\ client.closed) =>
             last'.err = OK /\ client'.released = client.released

\* C21: on both engines a second and every later Close returns no error and
\* releases nothing twice.
C21_CloseIdempotent == [][C21Step]_vars

(***************************************************************************)
(* The cleanup goroutine and its ticker.  time.NewTicker sends on a        *)
(* channel that holds one tick; a tick sent while one is waiting is        *)
(* dropped.  The goroutine receives a tick, sweeps, and receives again.    *)
(***************************************************************************)
\* the engine NewMemoryCache returns: the cleanup goroutine has its ticker
MemoryEngine == [cache |-> "memory", ticker |-> "running", C |-> 0, conn |-> FALSE]

InitSweep ==
    /\ data = EmptyMap
    /\ now = StartTime
    /\ last = NoCall
    /\ calls = 0
    /\ stamp = [k \in Keys |-> NoStamp]
    /\ config = [Prefix |-> ""]
    /\ rdata = EmptyMap
    /\ pipe = NoPipe
    /\ ConcInit
    /\ closes = 0
    /\ client = OpenClient
    /\ engine = MemoryEngine
    /\ jwt = NoJWT
    /\ RestInit

\* the runtime sends a tick on ticker.C
TickerSend ==
    /\ ~crashed
    /\ engine.ticker = "running"
    /\ engine.C = 0
    /\ engine' = [engine EXCEPT !.C = 1]
    /\ UNCHANGED <<data, now, last, calls, stamp, remote, closes, client, jwt, rest, conc>>

\* for range ticker.C: the cleanup goroutine receives a tick and sweeps
SweepReceive ==
    /\ ~crashed
    /\ th[Sweeper].pc = "idle"
    /\ engine.C = 1
    /\ engine' = [engine EXCEPT !.C = 0]
    /\ th' = [th EXCEPT ![Sweeper] = [pc |-> "call", call |-> ConcCall("cleanup", "", Nil),
                                      read |-> NoResult, res |-> NoResult]]
    /\ UNCHANGED <<data, now, last, calls, stamp, remote, closes, client, jwt, rest, mutex, base,
                   crashed>>

\* a caller calls Close, which takes no lock and returns at once
InvokeClose(t) ==
    /\ ~crashed
    /\ th[t].pc = "idle"
    /\ calls < MaxCalls
    /\ data' = CloseOp(data).data
    /\ closes' = closes + 1
    /\ calls' = calls + 1
    /\ UNCHANGED <<now, last, stamp, remote, client, engine, jwt, rest, conc>>

\* the goroutines that call the engine while it sweeps
SweepCallers == {1, 2}
SweepCalls ==
    {ConcCall("MSet", "", [pairs |-> [k \in Keys |-> GoString(<<"b">>)], ttl |-> 1]),
     ConcCall("Set", "k2", [value |-> GoString(<<"a">>), ttl |-> 0]),
     ConcCall("Get", "k1", Nil)}

\* the steps of goroutine t
Steps(t) ==
    \/ Lock(t)
    \/ LockAcquired(t)
    \/ WriteRead(t)
    \/ WriteStore(t)
    \/ Unlock(t)
    \/ RLock(t)
    \/ ReadEntry(t)
    \/ LazyDelete(t)
    \/ RUnlock(t)

NextSweep ==
    \/ \E t \in SweepCallers, c \in SweepCalls : Invoke(t, c)
    \/ \E t \in SweepCallers : InvokeClose(t)
    \/ TickerSend
    \/ SweepReceive
    \/ \E t \in SweepCallers \cup {Sweeper} : Steps(t)
    \/ \E t \in SweepCallers : Fatal(t)
    \/ \E t \in SweepCallers : Return(t)
    \/ Tick

SpecSweep == InitSweep /\ [][NextSweep]_vars

\* the scheduler runs every goroutine that can take a step, and the ticker
\* keeps sending
SweepFairness ==
    /\ WF_vars(TickerSend)
    /\ WF_vars(SweepReceive)
    /\ \A t \in SweepCallers \cup {Sweeper} : WF_vars(Steps(t))

SpecSweepLive == SpecSweep /\ SweepFairness

\* C22: after Close has returned, the cleanup goroutine eventually stops:
\* from some point on it waits idle and sweeps no more (unless the process
\* has crashed).
C22_SweepEndsWithEngine ==
    <>[](closes >= 1 => (crashed \/ (th[Sweeper].pc = "idle" /\ engine.ticker # "running")))

\* the entry of key k has an expiration and the clock has passed it
ExpiredIn(d, k, t) == k \in DOMAIN d /\ Expired(d[k], t)

\* a step in which the cleanup goroutine writes the table
SweepWrites == th[Sweeper].pc = "writing" /\ data' # data

C23Step ==
    SweepWrites =>
       \E k \in DOMAIN data :
          /\ ExpiredIn(data, k, now)
          /\ data' = MapDelete(data, k)

SweepsInProgress == {t \in DOMAIN th : th[t].call.op = "cleanup" /\ th[t].pc # "idle"}

\* the cleanup goroutine holds the write lock
Sweeping == th[Sweeper].pc \in {"locked", "writing", "unlocking"}

C25Step == (Sweeping /\ data' # data) => (th[Sweeper].pc = "writing" /\ th'[Sweeper] # th[Sweeper])

\* C25: at most one sweep is under way at any time, the ticks that arrive
\* during a sweep do not pile up (one waits in the channel, the rest are
\* dropped), and from the moment a sweep has the write lock until it releases
\* it no caller is inside a critical section and only the sweep writes the
\* table.
C25_OneSweepAtATime ==
    /\ [](Cardinality(SweepsInProgress) <= 1 /\ engine.C <= 1)
    /\ [](Sweeping => \A t \in Callers : ~InCriticalSection(t))
    /\ [][C25Step]_vars

\* a sweep has removed k1 and has yet to remove the expired k2; a tick waits
\* in the channel and a caller waits for the lock
C25_Witness ==
    /\ th[Sweeper].pc = "writing"
    /\ "k1" \notin DOMAIN data
    /\ ExpiredIn(data, "k2", now)
    /\ "k1" \notin DOMAIN th[Sweeper].res.data
    /\ engine.C = 1
    /\ \E t \in Callers : th[t].pc = "call"

(***************************************************************************)
(* The expiry comparison, in the calls and in the sweep.                   *)
(***************************************************************************)
\* the entry of key k expires at t exactly
AtExpiry(d, k, t) == k \in DOMAIN d /\ d[k].expiration # ZeroTime /\ d[k].expiration = t

\* a pass of the cleanup goroutine
IsSweep == ~IsCall /\ now' = now /\ data' # data

C24Step ==
    /\ C3Step
    /\ IsCall =>
         LET c == last' IN
         /\ (c.key \in Keys /\ AtExpiry(data, c.key, now)) =>
              /\ c.err # ErrKeyNotFound
              /\ c.op = "Exists" => c.ret = TRUE
              /\ c.op = "Get" => c.ret = Sprint(data[c.key].value)
              /\ (c.op = "Increment" /\ IsInteger(data[c.key].value)) =>
                   c.ret = data[c.key].value.v + c.args.delta
              /\ (c.op = "Decrement" /\ IsInteger(data[c.key].value)) =>
                   c.ret = data[c.key].value.v - c.args.delta
              /\ c.op \notin {"Delete", "Set"} => c.key \in DOMAIN data'
              /\ c.op \notin {"Delete", "Set", "Expire", "Increment", "Decrement"} =>
                   data'[c.key].expiration = data[c.key].expiration
         /\ c.op = "MGet" =>
              \A i \in 1..Len(c.args.keys) :
                 AtExpiry(data, c.args.keys[i], c.args.times[i]) =>
                    c.ret[i] = data[c.args.keys[i]].value
    /\ IsSweep =>
         \A k \in DOMAIN data :
            /\ ExpiredEntry(k) => k \notin DOMAIN data'
            /\ ~ExpiredEntry(k) => (k \in DOMAIN data' /\ data'[k] = data[k])

\* C24: the calls and the sweep use one comparison, now > expiresAt.  An entry
\* whose expiration equals the clock is present to every call (no call
\* reports the key missing or removes it as expired, Exists is true, Get and
\* MGet return its value, Increment and Decrement count from its value, the
\* hash, list and set calls keep its expiration) and is left by a sweep; an entry whose expiration is
\* before the clock is absent to every call and removed by a sweep.
C24_OneComparison == [][C24Step]_vars

\* Get has returned the value of an entry at the very time it expires at
C24_Witness ==
    /\ last.op = "Get" /\ last.err = OK
    /\ AtExpiry(data, last.key, last.at)
    /\ stamp[last.key].ttl > 0

(***************************************************************************)
(* CacheConfig and the factory.  Durations are counted in milliseconds.    *)
(***************************************************************************)
\* the fields of CacheConfig that SetDefaults gives a number
NumericFields ==
    {"Port", "MaxRetries", "MinRetryBackoff", "MaxRetryBackoff", "DialTimeout",
     "ReadTimeout", "WriteTimeout", "PoolSize", "MinIdleConns", "MaxConnAge",
     "PoolTimeout", "IdleTimeout", "IdleCheckFreq", "MaxMemory", "CleanupInterval"}

\* a SetDefaults that always sets the pool size
SetDefaultsOverriding(c) ==
    [c EXCEPT !.Driver = IF @ = "" THEN "redis" ELSE @,
              !.Host = IF @ = "" THEN "localhost" ELSE @,
              !.PoolSize = 10]

\* CacheConfig.SetDefaults
SetDefaults(c) ==
    [Driver |-> IF c.Driver = "" THEN "redis" ELSE c.Driver,
     Host |-> IF c.Host = "" THEN "localhost" ELSE c.Host,
     Port |-> IF c.Port = 0 THEN 6379 ELSE c.Port,
     Password |-> c.Password,
     Database |-> c.Database,
     Prefix |-> IF c.Prefix = "" THEN "" ELSE c.Prefix,
     MaxRetries |-> IF c.MaxRetries = 0 THEN 3 ELSE c.MaxRetries,
     MinRetryBackoff |-> IF c.MinRetryBackoff = 0 THEN 8 ELSE c.MinRetryBackoff,
     MaxRetryBackoff |-> IF c.MaxRetryBackoff = 0 THEN 512 ELSE c.MaxRetryBackoff,
     DialTimeout |-> IF c.DialTimeout = 0 THEN 5 * 1000 ELSE c.DialTimeout,
     ReadTimeout |-> IF c.ReadTimeout = 0 THEN 3 * 1000 ELSE c.ReadTimeout,
     WriteTimeout |-> IF c.WriteTimeout = 0 THEN 3 * 1000 ELSE c.WriteTimeout,
     PoolSize |-> IF c.PoolSize = 0 THEN 10 ELSE c.PoolSize,
     MinIdleConns |-> IF c.MinIdleConns = 0 THEN 5 ELSE c.MinIdleConns,
     MaxConnAge |-> IF c.MaxConnAge = 0 THEN 60 * 60 * 1000 ELSE c.MaxConnAge,
     PoolTimeout |-> IF c.PoolTimeout = 0 THEN 4 * 1000 ELSE c.PoolTimeout,
     IdleTimeout |-> IF c.IdleTimeout = 0 THEN 5 * 60 * 1000 ELSE c.IdleTimeout,
     IdleCheckFreq |-> IF c.IdleCheckFreq = 0 THEN 60 * 1000 ELSE c.IdleCheckFreq,
     MaxMemory |-> IF c.MaxMemory = 0 THEN 100 * 1024 * 1024 ELSE c.MaxMemory,
     CleanupInterval |-> IF c.CleanupInterval = 0 THEN 10 * 60 * 1000
                         ELSE c.CleanupInterval]

\* the configurations the callers build: the fields in `zero` are left at
\* their zero value, the other numbers are set to v
Drivers == {"", "memory", "redis", "memcached"}
Hosts == {"", "cache.local"}
SetNumbers == {-1, 7}
ZeroSets == {z \in SUBSET NumericFields :
                Cardinality(z) <= 1 \/ Cardinality(z) >= Cardinality(NumericFields) - 1}

CacheConfig(driver, host, prefix, zero, v) ==
    [f \in NumericFields |-> IF f \in zero THEN 0 ELSE v]
    @@ [Driver |-> driver, Host |-> host, Password |-> "", Database |-> 0,
        Prefix |-> prefix]

Configs ==
    {CacheConfig(driver, host, prefix, zero, v) :
        driver \in Drivers, host \in Hosts, prefix \in Prefixes, zero \in ZeroSets,
        v \in SetNumbers}

ErrUnsupportedDriver == "unsupported cache driver"
ErrFailedConnect == "failed to connect to redis"

\* NewMemoryCache: the engine, and `go cache.cleanup()` not yet running
NewMemoryCache(cfg) ==
    [engine |-> [cache |-> "memory", ticker |-> "starting", C |-> 0, conn |-> FALSE],
     err |-> OK]

\* NewRedisCache: the engine if the store answers the ping
NewRedisCache(cfg, pong) ==
    IF pong THEN [engine |-> [cache |-> "redis", ticker |-> "none", C |-> 0, conn |-> TRUE],
                  err |-> OK]
    ELSE [engine |-> NoEngine, err |-> ErrFailedConnect]

\* a factory that takes the in-process engine for a driver it does not know
CreateCacheOpLenient(cfg, pong) ==
    IF cfg.Driver = "redis" THEN NewRedisCache(cfg, pong) ELSE NewMemoryCache(cfg)

\* Factory.CreateCache
CreateCacheOp(cfg, pong) ==
    CASE cfg.Driver = "redis" -> NewRedisCache(cfg, pong)
      [] cfg.Driver = "memory" -> NewMemoryCache(cfg)
      [] OTHER -> [engine |-> NoEngine, err |-> ErrUnsupportedDriver]

InitConfig ==
    /\ data = EmptyMap
    /\ now = StartTime
    /\ last = NoCall
    /\ calls = 0
    /\ stamp = [k \in Keys |-> NoStamp]
    /\ config \in Configs
    /\ rdata = EmptyMap
    /\ pipe = NoPipe
    /\ ConcInit
    /\ OutsideInit

\* the caller applies the defaults to its configuration
SetDefaultsCall ==
    /\ calls < MaxCalls
    /\ config' = SetDefaults(config)
    /\ last' = [op |-> "SetDefaults", key |-> "", args |-> [cfg |-> config], at |-> now,
                was |-> "", ret |-> Nil, err |-> OK]
    /\ calls' = calls + 1
    /\ UNCHANGED <<now, rdata, pipe, outside, inProcess, conc>>

\* the caller passes its configuration to the factory; the store answers the
\* ping of NewRedisCache or does not
CreateCache ==
    /\ calls < MaxCalls
    /\ engine = NoEngine
    /\ \E pong \in BOOLEAN :
          LET r == CreateCacheOp(config, pong) IN
          /\ engine' = r.engine
          /\ last' = [op |-> "CreateCache", key |-> "", args |-> [cfg |-> config],
                      at |-> now, was |-> "", ret |-> r.engine.cache, err |-> r.err]
    /\ calls' = calls + 1
    /\ UNCHANGED <<now, remote, closes, client, jwt, rest, inProcess, conc>>

\* the cleanup goroutine starts: time.NewTicker(m.config.CleanupInterval)
\* panics when the interval is not positive, which ends the process
NewTicker ==
    /\ ~crashed
    /\ engine.ticker = "starting"
    /\ engine' = [engine EXCEPT !.ticker = IF config.CleanupInterval > 0 THEN "running"
                                           ELSE "panic"]
    /\ crashed' = ~(config.CleanupInterval > 0)
    /\ UNCHANGED <<data, now, last, calls, stamp, remote, closes, client, jwt, rest, th, mutex,
                   base>>

NextConfig ==
    \/ SetDefaultsCall
    \/ CreateCache
    \/ NewTicker

SpecConfig == InitConfig /\ [][NextConfig]_vars

C26Step ==
    (IsCall /\ last'.op = "CreateCache") =>
       LET c == last' IN
       /\ config.Driver = "memory" =>
            c.err = OK /\ c.ret = "memory" /\ engine'.cache = "memory"
       /\ config.Driver = "redis" =>
            \/ c.err = OK /\ c.ret = "redis" /\ engine'.cache = "redis" /\ engine'.conn
            \/ c.err = ErrFailedConnect /\ c.ret = "none" /\ engine' = NoEngine
       /\ config.Driver \notin {"memory", "redis"} =>
            /\ c.err = ErrUnsupportedDriver /\ c.ret = "none"
            /\ engine' = NoEngine
            /\ ~crashed'

\* C26: CreateCache returns the in-process engine for the driver "memory" and
\* the remote engine for "redis" (an error when the store does not answer the
\* ping); for every other driver, the empty one included, it returns an error
\* and no engine, does not panic, and neither then nor later is a cleanup
\* goroutine started or a connection opened.
C26_DriverSelection ==
    /\ [][C26Step]_vars
    /\ []((last.op = "CreateCache" /\ last.err = ErrUnsupportedDriver) =>
             (engine = NoEngine /\ ~crashed))

\* CreateCache has refused a configuration whose driver is empty
C26_Witness ==
    /\ last.op = "CreateCache" /\ last.args.cfg.Driver = ""
    /\ last.err = ErrUnsupportedDriver
    /\ engine = NoEngine

\* C27: the configuration an engine is built from has had the defaults
\* applied: no numeric or duration field of it is zero, and the ticker of the
\* in-process engine's sweep is started with a positive interval.
C27_DefaultsBeforeConstruction ==
    /\ (last.op = "CreateCache" /\ last.err = OK) =>
          \A f \in NumericFields : last.args.cfg[f] # 0
    /\ engine.ticker # "panic"
    /\ ~crashed

C28Step ==
    (IsCall /\ last'.op = "SetDefaults") =>
       /\ SetDefaults(config') = config'
       /\ \A f \in NumericFields : config[f] # 0 => config'[f] = config[f]
       /\ \A f \in {"Driver", "Host", "Prefix"} : config[f] # "" => config'[f] = config[f]
       /\ config'.Password = config.Password /\ config'.Database = config.Database
       /\ \A f \in NumericFields : config'[f] # 0
       /\ last.op = "SetDefaults" => config' = config

\* C28: SetDefaults is idempotent and overrides no set value: a second call
\* changes nothing, every field that was not zero keeps its value, and after
\* the call every numeric and duration field it covers is not zero.
C28_SetDefaultsIdempotent == [][C28Step]_vars

\* SetDefaults, called twice, has filled the port and kept the pool size
C28_Witness ==
    /\ last.op = "SetDefaults" /\ calls = 2
    /\ last.args.cfg = config
    /\ config.Port = 6379 /\ config.PoolSize = 7 /\ config.Driver = "redis"
    /\ engine = NoEngine

(***************************************************************************)
(* The JWT helper with a cache attached (WithCache).  The cache is the     *)
(* remote engine; a call on it fails when the store cannot be reached.     *)
(* A token is determined by the user and the time it is issued at.         *)
(***************************************************************************)
ErrFailedSet == "failed to set key"
ErrFailedDelete == "failed to delete key"
ErrFailedExists == "failed to check existence of key"
ErrInvalidToken == "invalid token"
ErrTokenRevoked == "token revoked or expired"

\* RedisCache.Set, Exists and Delete with a store that is up or not
CacheSet(rd, cfg, k, val, ttl, t, up) ==
    IF up THEN RedisSetOp(rd, cfg, k, val, ttl, t) ELSE Result(rd, Nil, ErrFailedSet)
CacheExists(rd, cfg, k, t, up) ==
    IF up THEN RedisExistsOp(rd, cfg, k, t) ELSE Result(rd, FALSE, ErrFailedExists)
CacheDelete(rd, cfg, k, t, up) ==
    IF up THEN RedisDeleteOp(rd, cfg, k, t) ELSE Result(rd, Nil, ErrFailedDelete)

\* JWT.expiresIn
expiresIn == 1
UserIDs == {1, 2}
Tokens == [user : UserIDs, iat : Times]

\* the signed string of a token
Signed(tok) == "u" \o ToString(tok.user) \o "." \o ToString(tok.iat)

\* JWT.tokenKey, with JWT.cacheKey
tokenKey(tok) == "jwt:token:r" \o ":" \o Signed(tok)

\* jwt.ParseWithClaims: the signature is ours and the token has not expired
ParseWithClaims(j, tok, t) == tok \in j.issued /\ ~(t > tok.iat + expiresIn)

\* JWT.GenerateToken: the error of Set is dropped
GenerateTokenOp(j, rd, cfg, u, t, up) ==
    LET tok == [user |-> u, iat |-> t] IN
    [jwt |-> [issued |-> j.issued \cup {tok}, revoked |-> j.revoked \ {tok}],
     data |-> CacheSet(rd, cfg, tokenKey(tok), GoInt(u), expiresIn, t, up).data,
     ret |-> tok, err |-> OK]

\* JWT.ParseToken
ParseTokenOp(j, rd, cfg, tok, t, up) ==
    IF ~ParseWithClaims(j, tok, t) THEN [data |-> rd, ret |-> Nil, err |-> ErrInvalidToken]
    ELSE LET r == CacheExists(rd, cfg, tokenKey(tok), t, up) IN
         IF r.err = OK /\ ~r.ret THEN [data |-> r.data, ret |-> Nil, err |-> ErrTokenRevoked]
         ELSE [data |-> r.data, ret |-> [UserID |-> tok.user], err |-> OK]

\* JWT.RevokeToken
RevokeTokenOp(j, rd, cfg, tok, t, up) ==
    LET r == CacheDelete(rd, cfg, tokenKey(tok), t, up) IN
    [jwt |-> IF r.err = OK THEN [j EXCEPT !.revoked = @ \cup {tok}] ELSE j,
     data |-> r.data, ret |-> Nil, err |-> r.err]

JWTCall(op, tok, up, r) ==
    [op |-> op, key |-> "", args |-> [token |-> tok, up |-> up], at |-> now, was |-> "",
     ret |-> r.ret, err |-> r.err]

GenerateToken(u, up) ==
    /\ calls < MaxCalls
    /\ LET r == GenerateTokenOp(jwt, rdata, config, u, now, up) IN
       /\ jwt' = r.jwt
       /\ rdata' = r.data
       /\ last' = JWTCall("GenerateToken", r.ret, up, r)
    /\ calls' = calls + 1
    /\ UNCHANGED <<now, config, pipe, closes, client, engine, rest, inProcess, conc>>

ParseToken(tok, up) ==
    /\ calls < MaxCalls
    /\ LET r == ParseTokenOp(jwt, rdata, config, tok, now, up) IN
       /\ rdata' = r.data
       /\ last' = JWTCall("ParseToken", tok, up, r)
    /\ calls' = calls + 1
    /\ UNCHANGED <<now, config, pipe, outside, inProcess, conc>>

RevokeToken(tok, up) ==
    /\ calls < MaxCalls
    /\ LET r == RevokeTokenOp(jwt, rdata, config, tok, now, up) IN
       /\ jwt' = r.jwt
       /\ rdata' = r.data
       /\ last' = JWTCall("RevokeToken", tok, up, r)
    /\ calls' = calls + 1
    /\ UNCHANGED <<now, config, pipe, closes, client, engine, rest, inProcess, conc>>

NextJWT ==
    \/ \E u \in UserIDs, up \in BOOLEAN : GenerateToken(u, up)
    \/ \E tok \in Tokens, up \in BOOLEAN : ParseToken(tok, up)
    \/ \E tok \in Tokens, up \in BOOLEAN : RevokeToken(tok, up)
    \/ Tick

SpecJWT == InitRedis /\ [][NextJWT]_vars

\* the cache holds the entry of the token
Stored(tok) == RLookup(rdata, getKey(config, tokenKey(tok)), now).found

C29Step ==
    (IsCall /\ last'.op = "ParseToken") =>
       LET tok == last'.args.token IN
       /\ (ParseWithClaims(jwt, tok, now) /\ Stored(tok)) =>
             last'.err = OK /\ last'.ret = [UserID |-> tok.user]
       /\ tok \in jwt.revoked => last'.err # OK /\ last'.ret = Nil

\* C29: a token GenerateToken returned is accepted by ParseToken while its
\* cache entry exists, and once RevokeToken(t) has returned without error
\* every later ParseToken(t) returns an error and no claims (until the same
\* token is issued again), also when the cache's Exists call fails.
C29_RevocationEffective == [][C29Step]_vars

(***************************************************************************)
(* The two engines behind the facade: every call is made on a fresh        *)
(* in-process engine and on a fresh remote engine, at the same times.      *)
(***************************************************************************)
FacadeCalls ==
    {[op |-> "Set", key |-> k, args |-> [value |-> GoString(v), ttl |-> ttl]] :
        k \in Keys, v \in {<<"a">>, <<"1", "0">>}, ttl \in {0, 1}}
    \cup {[op |-> op, key |-> k, args |-> Nil] :
            op \in {"Get", "Delete", "Exists", "TTL"}, k \in Keys}
    \cup {[op |-> "Increment", key |-> k, args |-> [delta |-> 3]] : k \in Keys}
    \cup {[op |-> "Expire", key |-> k, args |-> [ttl |-> 1]] : k \in Keys}

\* the call on MemoryCache
OnMemory(c, d, t) ==
    CASE c.op = "Set" -> SetOp(d, c.key, c.args.value, c.args.ttl, t)
      [] c.op = "Get" -> GetOp(d, c.key, t)
      [] c.op = "Delete" -> DeleteOp(d, c.key)
      [] c.op = "Exists" -> ExistsOp(d, c.key, t)
      [] c.op = "TTL" -> TTLOp(d, c.key, t, t)
      [] c.op = "Increment" -> IncrementOp(d, c.key, c.args.delta, t)
      [] c.op = "Expire" -> ExpireOp(d, c.key, c.args.ttl, t, t)

\* the call on RedisCache
OnRedis(c, rd, cfg, t) ==
    CASE c.op = "Set" -> RedisSetOp(rd, cfg, c.key, c.args.value, c.args.ttl, t)
      [] c.op = "Get" -> RedisGetOp(rd, cfg, c.key, t)
      [] c.op = "Delete" -> RedisDeleteOp(rd, cfg, c.key, t)
      [] c.op = "Exists" -> RedisExistsOp(rd, cfg, c.key, t)
      [] c.op = "TTL" -> RedisTTLOp(rd, cfg, c.key, t)
      [] c.op = "Increment" -> RedisIncrementOp(rd, cfg, c.key, c.args.delta, t)
      [] c.op = "Expire" -> RedisExpireOp(rd, cfg, c.key, c.args.ttl, t)

\* the same call on both engines
OnBoth(c) ==
    /\ calls < MaxCalls
    /\ LET m == OnMemory(c, data, now)
           r == OnRedis(c, rdata, config, now)
       IN /\ data' = m.data
          /\ rdata' = r.data
          /\ last' = [op |-> c.op, key |-> c.key, args |-> c.args, at |-> now,
                      was |-> Was(c.key), ret |-> m.ret, err |-> m.err,
                      remote |-> [ret |-> r.ret, err |-> r.err]]
    /\ calls' = calls + 1
    /\ UNCHANGED <<now, stamp, config, pipe, outside, conc>>

NextBoth ==
    \/ \E c \in FacadeCalls : OnBoth(c)
    \/ Tick

SpecBoth == InitRedis /\ [][NextBoth]_vars

\* C30: each call returns the same outcome on both engines: both succeed or
\* both fail, and when they succeed they return the same text, number or
\* boolean.
C30_EnginesInterchangeable ==
    (last.op # "none") =>
        (/\ (last.err = OK) <=> (last.remote.err = OK)
         /\ (last.err = OK) => (last.ret = last.remote.ret))


(***************************************************************************)
(* Calls that update an entry in place, sequential calls (Spec).           *)
(***************************************************************************)
InPlaceOps == {"Increment", "Decrement", "HSet", "HDelete", "LPush", "RPush",
               "LPop", "RPop", "SAdd", "SRem"}

\* the key holds an entry that has not expired
LiveEntry(k) == k \in DOMAIN data /\ ~Expired(data[k], now)

C31Step ==
    IsCall =>
      LET c == last' IN
      (c.op \in InPlaceOps /\ c.key \in Keys /\ LiveEntry(c.key)) =>
         /\ c.key \in DOMAIN data'
         /\ data'[c.key].expiration = data[c.key].expiration

\* C31: Increment, Decrement, HSet, HDelete, LPush, RPush, LPop, RPop, SAdd and
\* SRem on a key that holds a live entry leave the entry in the table with the
\* expiration it had.
C31_InPlaceKeepsExpiry == [][C31Step]_vars


\* the table after a call that failed: the entry of key k is gone when it had
\* expired, and every other entry is what it was
FailedCallLeaves(k) ==
    /\ DOMAIN data' \subseteq DOMAIN data
    /\ \A x \in DOMAIN data :
          IF x = k /\ Expired(data[x], now)
          THEN x \notin DOMAIN data'
          ELSE x \in DOMAIN data' /\ data'[x] = data[x]

C32Step ==
    (IsCall /\ last'.err # OK) =>
       /\ FailedCallLeaves(last'.key)
       /\ mutex' = mutex
       /\ crashed' = crashed

\* C32: a call that returns an error removes the entry of its key when that
\* entry had expired and changes nothing else: every other entry, and the entry
\* of its key when it was live, keeps its value and its expiration, the lock is
\* free again and the engine has not stopped.
C32_FailedCallChangesNothing == [][C32Step]_vars

\* a call on a live key has failed while the table holds another key as well
C32_Witness ==
    /\ last.err \notin {OK, ErrKeyNotFound}
    /\ last.was = "live"
    /\ Cardinality(DOMAIN data) = 2


(***************************************************************************)
(* Mutable values.  A map[string]interface{} is a reference: serialize     *)
(* returns the value it is given, Set and MSet store it and MGet returns   *)
(* item.value, so the table and the caller may hold the same map.  heap.obj *)
(* is the maps that exist, by address, and heap.held the addresses the      *)
(* caller holds; an entry of the table holds a map as GoRef(address).       *)
(***************************************************************************)
\* number of maps in one behaviour
MaxObjects == 3

GoRef(a) == [t |-> "ref", a |-> a]
IsRef(val) == val.t = "ref"

MapContents == {EmptyMap} \cup [Fields -> {GoString(<<"x">>), GoString(<<"y">>)}]

\* make(map[string]interface{}), or a map literal: a new map at a new address
MakeMap(h, m) == [h EXCEPT !.obj = Append(@, m)]

\* the table with every reference replaced by the map it points to
Deref(h, val) == IF IsRef(val) THEN GoHash(h.obj[val.a]) ELSE val
Resolved(d, h) == [k \in DOMAIN d |-> Item(Deref(h, d[k].value), d[k].expiration)]

\* HSet writes the pairs into the map the entry points to; it makes a new map
\* for an absent or expired key and for a value that is no map
HSetMapOp(d, h, k, pairs, t) ==
    LET l == Lookup(d, k, t)
        own == l.found /\ IsRef(d[k].value)
        h1 == IF own THEN h ELSE MakeMap(h, EmptyMap)
        a == IF own THEN d[k].value.a ELSE Len(h1.obj)
        d1 == IF own THEN d
              ELSE MapPut(l.data, k, Item(GoRef(a), IF l.found THEN d[k].expiration
                                                    ELSE ZeroTime))
        hashMap == h1.obj[a]
        written == [f \in (DOMAIN hashMap) \cup (DOMAIN pairs) |->
                       IF f \in DOMAIN pairs THEN pairs[f] ELSE hashMap[f]]
    IN [data |-> d1, heap |-> [h1 EXCEPT !.obj[a] = written], ret |-> Nil, err |-> OK]

\* the addresses among the values MGet has returned
RefsIn(values) == {values[i].a : i \in {j \in 1..Len(values) : IsRef(values[j])}}

\* the caller builds a map
CallerMake(m) ==
    /\ Len(heap.obj) < MaxObjects
    /\ heap' = [obj |-> Append(heap.obj, m), held |-> heap.held \cup {Len(heap.obj) + 1}]
    /\ UNCHANGED <<data, now, last, calls, stamp, remote, closes, client, engine, jwt,
                   app, rbac, limiter, conc>>

\* the caller assigns to a field of a map it holds: m[f] = v
CallerWrite(a, f, v) ==
    /\ a \in heap.held
    /\ heap' = [heap EXCEPT !.obj[a] =
                   [x \in (DOMAIN @) \cup {f} |-> IF x = f THEN v ELSE @[x]]]
    /\ heap'.obj # heap.obj
    /\ UNCHANGED <<data, now, last, calls, stamp, remote, closes, client, engine, jwt,
                   app, rbac, limiter, conc>>

HSetMap(k, pairs) ==
    /\ calls < MaxCalls
    /\ LET r == HSetMapOp(data, heap, k, pairs, now) IN
       /\ Len(r.heap.obj) <= MaxObjects
       /\ data' = r.data
       /\ heap' = r.heap
       /\ last' = Call("HSet", k, [pairs |-> pairs], r)
    /\ calls' = calls + 1
    /\ UNCHANGED <<now, stamp, remote, closes, client, engine, jwt, app, rbac, limiter,
                   conc>>

\* MGet hands item.value to the caller
MGetMap(ks) ==
    /\ calls < MaxCalls
    /\ LET r == MGetOp(data, ks, [i \in 1..Len(ks) |-> now]) IN
       /\ data' = r.data
       /\ heap' = [heap EXCEPT !.held = @ \cup RefsIn(r.ret)]
       /\ last' = Call("MGet", "", [keys |-> ks], r)
    /\ calls' = calls + 1
    /\ UNCHANGED <<now, stamp, remote, closes, client, engine, jwt, app, rbac, limiter,
                   conc>>

\* HGetAll copies the fields of the map into a new map[string]string
HGetAllMap(k) ==
    /\ calls < MaxCalls
    /\ LET r == HGetAllOp(Resolved(data, heap), k, now) IN
       /\ data' = Lookup(data, k, now).data
       /\ last' = Call("HGetAll", k, Nil, r)
    /\ calls' = calls + 1
    /\ UNCHANGED <<now, stamp, remote, outside, conc>>

NextMap ==
    \/ \E m \in MapContents : CallerMake(m)
    \/ \E a \in heap.held, f \in Fields, v \in {GoString(<<"x">>), GoString(<<"y">>)} :
          CallerWrite(a, f, v)
    \/ \E k \in Keys, a \in heap.held : Set(k, GoRef(a), 0)
    \/ \E a \in heap.held : MSet([k \in Keys |-> GoRef(a)], 0)
    \/ \E k \in Keys, v \in {GoString(<<"x">>), GoString(<<"y">>)} :
          HSetMap(k, [f \in Fields |-> v])
    \/ \E k \in Keys : MGetMap(<<k>>)
    \/ \E k \in Keys : HGetAllMap(k)

SpecMap == Init /\ [][NextMap]_vars

\* what HGetAll returns for key k on table d and maps h
EngineView(d, h, k) ==
    LET r == HGetAllOp(Resolved(d, h), k, now) IN [ret |-> r.ret, err |-> r.err]

C33Step ==
    /\ ~IsCall => \A k \in Keys : EngineView(data', heap', k) = EngineView(data, heap, k)
    /\ IsCall => \A a \in heap.held : heap'.obj[a] = heap.obj[a]

\* C33: the table shares no map with the caller: a step of the caller (building
\* a map, assigning to a field of a map it passed to Set or MSet or received
\* from MGet) leaves what HGetAll returns for every key as it was, and a facade
\* call leaves every map the caller holds as it was.
C33_TableNotShared == [][C33Step]_vars


(***************************************************************************)
(* Two remote engines on one store.  config.Prefix is the prefix of engine *)
(* "A" and config.Peer the prefix of engine "B".                           *)
(***************************************************************************)
NamespacePrefixes == {"", "app", "app:k"}
NamespaceKeys == {"k", "1", "k:1", "app:k"}
Engines == {"A", "B"}

ConfigOf(e) == [Prefix |-> IF e = "A" THEN config.Prefix ELSE config.Peer]
Peer(e) == IF e = "A" THEN "B" ELSE "A"

RedisMDeleteOp(rd, cfg, ks, t) == ClientDel(rd, {getKey(cfg, k) : k \in ks}, t)

InitPrefix ==
    /\ data = EmptyMap
    /\ now = StartTime
    /\ last = NoCall
    /\ calls = 0
    /\ stamp = [k \in Keys |-> NoStamp]
    /\ config \in {c \in [Prefix : NamespacePrefixes, Peer : NamespacePrefixes] :
                     c.Prefix # c.Peer}
    /\ rdata = EmptyMap
    /\ pipe = NoPipe
    /\ ConcInit
    /\ OutsideInit

\* a call on engine e for the caller keys ks
OnEngine(e, op, ks, args, r) ==
    /\ calls < MaxCalls
    /\ rdata' = r.data
    /\ last' = [op |-> op, key |-> "", args |-> [engine |-> e, keys |-> ks] @@ args,
                at |-> now, was |-> "", ret |-> r.ret, err |-> r.err]
    /\ calls' = calls + 1
    /\ UNCHANGED <<now, config, outside, pipe, inProcess, conc>>

SetOn(e, k, val) ==
    OnEngine(e, "Set", {k}, [value |-> val],
             RedisSetOp(rdata, ConfigOf(e), k, val, 0, now))
GetOn(e, k) == OnEngine(e, "Get", {k}, <<>>, RedisGetOp(rdata, ConfigOf(e), k, now))
DeleteOn(e, k) == OnEngine(e, "Delete", {k}, <<>>, RedisDeleteOp(rdata, ConfigOf(e), k, now))
MGetOn(e, ks) ==
    OnEngine(e, "MGet", Range(ks), <<>>, RedisMGetOp(rdata, ConfigOf(e), ks, now))
MDeleteOn(e, ks) ==
    OnEngine(e, "MDelete", ks, <<>>, RedisMDeleteOp(rdata, ConfigOf(e), ks, now))

NextPrefix ==
    \/ \E e \in Engines, k \in NamespaceKeys, val \in {GoString(<<"a">>), GoString(<<"b">>)} :
          SetOn(e, k, val)
    \/ \E e \in Engines, k \in NamespaceKeys : GetOn(e, k)
    \/ \E e \in Engines, k \in NamespaceKeys : DeleteOn(e, k)
    \/ \E e \in Engines, k1, k2 \in NamespaceKeys : k1 # k2 /\ MGetOn(e, <<k1, k2>>)
    \/ \E e \in Engines, k1, k2 \in NamespaceKeys : k1 # k2 /\ MDeleteOn(e, {k1, k2})

SpecPrefix == InitPrefix /\ [][NextPrefix]_vars

\* what Get(k) on engine e returns when the store holds rd
Seen(rd, e, k) ==
    LET r == RedisGetOp(rd, ConfigOf(e), k, now) IN [ret |-> r.ret, err |-> r.err]

\* the remote keys of a call
Addressed(c) == {getKey(ConfigOf(c.args.engine), k) : k \in c.args.keys}

\* a call touches the store at the remote keys of its caller keys only
AddressedOnly(c) ==
    /\ \A rk \in (DOMAIN rdata) \cup (DOMAIN rdata') :
          rk \notin Addressed(c) => (rk \in DOMAIN rdata /\ rk \in DOMAIN rdata'
                                     /\ rdata'[rk] = rdata[rk])
    /\ c.op = "Set" => \A rk \in Addressed(c) :
          rk \in DOMAIN rdata' /\ rdata'[rk].value = GoString(serialize(c.args.value))
    /\ c.op \in {"Delete", "MDelete"} => Addressed(c) \cap DOMAIN rdata' = {}

\* the other caller keys of the same engine are served as before
OwnKeysApart(c) ==
    \A k \in NamespaceKeys \ c.args.keys :
       Seen(rdata', c.args.engine, k) = Seen(rdata, c.args.engine, k)

\* every caller key of the other engine is served as before
EnginesApart(c) ==
    \A k \in NamespaceKeys :
       Seen(rdata', Peer(c.args.engine), k) = Seen(rdata, Peer(c.args.engine), k)

C34Step == IsCall => (AddressedOnly(last') /\ OwnKeysApart(last') /\ EnginesApart(last'))

\* C34: a call on the remote engine addresses prefix + ":" + key (key itself
\* without a prefix) for each of its keys and nothing else; it leaves the other
\* caller keys of its engine, and every caller key of an engine configured with
\* a different prefix, as they were.
C34_NamespacesApart == [][C34Step]_vars


(***************************************************************************)
(* Application (src/core.go).  app holds which of Server, DB and Cache the *)
(* application was built with, the server's error channel, the context of  *)
(* Run, and counts of what has been done to the three components.          *)
(***************************************************************************)
ErrShutdownServer == "shutdown server"
ErrCloseDB == "close db"
ErrCloseCache == "close cache"
ErrListen == "listen tcp: address already in use"

\* New: each component is built unless its option disables it
Application(server, db, cache) ==
    [built |-> TRUE, Server |-> server, DB |-> db, Cache |-> cache,
     serverErrChan |-> "nil", ch |-> <<>>, chClosed |-> FALSE, serving |-> "no",
     starts |-> 0, shutdowns |-> 0, dbCloses |-> 0, cacheCloses |-> 0,
     closeCalls |-> 0, closing |-> [se |-> FALSE, de |-> FALSE, ce |-> FALSE, err |-> OK],
     ctx |-> "live", run |-> "idle", runClosed |-> FALSE, ret |-> OK]

\* ginServer.Shutdown: a server that is serving stops
Shutdown(a) ==
    [a EXCEPT !.shutdowns = @ + 1,
              !.serving = IF @ = "yes" THEN "shutdown" ELSE @]

\* Application.Close; se, de and ce tell whether Server.Shutdown, DB.Close and
\* Cache.Close return an error when they are called
ApplicationClose(a, se, de, ce) ==
    LET a1 == IF a.Server THEN Shutdown(a) ELSE a
        e1 == IF a.Server /\ se THEN ErrShutdownServer ELSE OK
        a2 == IF a.DB /\ e1 = OK THEN [a1 EXCEPT !.dbCloses = @ + 1] ELSE a1
        e2 == IF a.DB /\ e1 = OK /\ de THEN ErrCloseDB ELSE e1
        a3 == IF a.Cache /\ e2 = OK THEN [a2 EXCEPT !.cacheCloses = @ + 1] ELSE a2
        e3 == IF a.Cache /\ e2 = OK /\ ce THEN ErrCloseCache ELSE e2
    IN [a3 EXCEPT !.closeCalls = @ + 1,
                  !.closing = [se |-> se, de |-> de, ce |-> ce, err |-> e3]]

\* Application.Start: StartAsync is called when there is a server and no channel yet
ApplicationStart(a) ==
    IF a.Server /\ a.serverErrChan = "nil"
    THEN [a EXCEPT !.serverErrChan = "open", !.serving = "yes", !.starts = @ + 1]
    ELSE a

InitApp ==
    /\ data = EmptyMap
    /\ now = StartTime
    /\ last = NoCall
    /\ calls = 0
    /\ stamp = [k \in Keys |-> NoStamp]
    /\ config = [Prefix |-> ""]
    /\ rdata = EmptyMap
    /\ pipe = NoPipe
    /\ ConcInit
    /\ closes = 0
    /\ client = OpenClient
    /\ engine = NoEngine
    /\ jwt = NoJWT
    /\ heap = NoHeap
    /\ rbac = NoRBAC
    /\ limiter = NoLimiter
    /\ app \in {Application(s, d, c) : s \in BOOLEAN, d \in BOOLEAN, c \in BOOLEAN}

AppFrame == UNCHANGED <<data, now, last, stamp, remote, closes, client, engine, jwt, heap,
                        rbac, limiter, conc>>

\* the owner calls Close
CloseApplication(se, de, ce) ==
    /\ calls < MaxCalls
    /\ app' = ApplicationClose(app, se, de, ce)
    /\ calls' = calls + 1
    /\ AppFrame

\* the owner calls Start
Start ==
    /\ calls < MaxCalls
    /\ app' = ApplicationStart(app)
    /\ calls' = calls + 1
    /\ AppFrame

\* Run, up to its wait
RunStart ==
    /\ app.run = "idle"
    /\ app' = [ApplicationStart(app) EXCEPT !.run = "waiting"]
    /\ UNCHANGED calls
    /\ AppFrame

\* the context of Run is cancelled
Cancel ==
    /\ app.ctx = "live"
    /\ app' = [app EXCEPT !.ctx = "done"]
    /\ UNCHANGED calls
    /\ AppFrame

\* the goroutine of StartAsync: ListenAndServe fails, the error is sent and
\* the channel is closed
ServerFails ==
    /\ app.serving = "yes"
    /\ app' = [app EXCEPT !.serving = "stopped", !.ch = <<ErrListen>>, !.chClosed = TRUE]
    /\ UNCHANGED calls
    /\ AppFrame

\* the goroutine of StartAsync: after Shutdown ListenAndServe returns
\* http.ErrServerClosed, Start returns nil, nil is sent and the channel is closed
ServerStops ==
    /\ app.serving = "shutdown"
    /\ app' = [app EXCEPT !.serving = "stopped", !.ch = <<OK>>, !.chClosed = TRUE]
    /\ UNCHANGED calls
    /\ AppFrame

\* Run: <-ctx.Done(), then return a.Close(ctx)
RunDone(se, de, ce) ==
    /\ app.run = "waiting"
    /\ app.ctx = "done"
    /\ LET a == ApplicationClose(app, se, de, ce) IN
       app' = [a EXCEPT !.run = "returned", !.runClosed = TRUE, !.ret = a.closing.err]
    /\ UNCHANGED calls
    /\ AppFrame

\* Run: err, ok := <-a.serverErrChan, then return nil or err
RunReceive ==
    /\ app.run = "waiting"
    /\ app.Server
    /\ app.ch # <<>> \/ app.chClosed
    /\ app' = [app EXCEPT !.run = "returned",
                          !.ch = IF @ = <<>> THEN @ ELSE Tail(@),
                          !.ret = IF app.ch = <<>> THEN OK ELSE Head(app.ch)]
    /\ UNCHANGED calls
    /\ AppFrame

NextApp ==
    \/ \E se, de, ce \in BOOLEAN : CloseApplication(se, de, ce)
    \/ Start
    \/ RunStart
    \/ Cancel
    \/ ServerFails
    \/ ServerStops
    \/ \E se, de, ce \in BOOLEAN : RunDone(se, de, ce)
    \/ RunReceive

SpecApp == InitApp /\ [][NextApp]_vars

\* the first error among the three steps of Close
FirstError(a, se, de, ce) ==
    IF a.Server /\ se THEN ErrShutdownServer
    ELSE IF a.DB /\ de THEN ErrCloseDB
    ELSE IF a.Cache /\ ce THEN ErrCloseCache
    ELSE OK

C35Step ==
    app'.closeCalls = app.closeCalls + 1 =>
       /\ app.Server => app'.shutdowns = app.shutdowns + 1
       /\ app.DB => app'.dbCloses = app.dbCloses + 1
       /\ app.Cache => app'.cacheCloses = app.cacheCloses + 1
       /\ app'.closing.err =
             FirstError(app, app'.closing.se, app'.closing.de, app'.closing.ce)

\* C35: every call of Application.Close shuts the server down, closes the
\* database and closes the cache, each when it is there, also when an earlier
\* step has returned an error, and returns the first error of the three.
C35_CloseReleasesAll == [][C35Step]_vars

\* C36: the server is started at most once, and Run has returned only after it
\* has executed Close.
C36_RunClosesOnExit ==
    /\ app.starts <= 1
    /\ app.run = "returned" => app.runClosed


(***************************************************************************)
(* The RBAC enforcer (src/server/module/admin/service/casbin.go).  The     *)
(* package variable enforcer is read and written without synchronisation:  *)
(* a goroutine reads the value another goroutine has written, or still nil. *)
(* rbac.enforcer is the enforcer the variable points to (0 is nil),         *)
(* rbac.builds the adapter and enforcer constructions, rbac.seeds the runs  *)
(* of the default-policy seeding.                                           *)
(***************************************************************************)
\* the values of the variable a read by goroutine t can give
VisibleEnforcer(r, t) ==
    {r.enforcer} \cup (IF \E u \in Callers \ {t} : r.wrote[u] THEN {0} ELSE {})

RBACFrame == UNCHANGED <<data, now, last, calls, stamp, remote, closes, client, engine, jwt,
                         heap, app, limiter, conc>>

\* if enforcer == nil
CheckEnforcer(t) ==
    /\ rbac.pc[t] = "idle"
    /\ \E seen \in VisibleEnforcer(rbac, t) :
          rbac' = [rbac EXCEPT !.pc[t] = IF seen = 0 THEN "construct" ELSE "return"]
    /\ RBACFrame

\* gormadapter.NewAdapterByDB; enforcer, err = casbin.NewEnforcer(m, adapter)
NewEnforcer(t) ==
    /\ rbac.pc[t] = "construct"
    /\ rbac' = [rbac EXCEPT !.builds = @ + 1, !.enforcer = rbac.builds + 1,
                            !.wrote[t] = TRUE, !.pc[t] = "seed"]
    /\ RBACFrame

\* LoadPolicy, HasPolicy / AddPolicy for the three roles, SavePolicy
SeedPolicies(t) ==
    /\ rbac.pc[t] = "seed"
    /\ rbac' = [rbac EXCEPT !.seeds = @ + 1, !.pc[t] = "return"]
    /\ RBACFrame

\* return &CasbinServiceImpl{...}
ReturnService(t) ==
    /\ rbac.pc[t] = "return"
    /\ rbac' = [rbac EXCEPT !.pc[t] = "done"]
    /\ RBACFrame

NewCasbinService(t) ==
    \/ CheckEnforcer(t)
    \/ NewEnforcer(t)
    \/ SeedPolicies(t)
    \/ ReturnService(t)

NextRBAC == \E t \in Callers : NewCasbinService(t)

SpecRBAC == Init /\ [][NextRBAC]_vars

\* C37: the adapter and enforcer are constructed at most once and the default
\* policies are seeded at most once, however many goroutines call
\* NewCasbinService; once all of them have returned both have happened exactly
\* once.
C37_EnforcerInitialisedOnce ==
    /\ rbac.builds <= 1
    /\ rbac.seeds <= 1
    /\ (\A t \in Callers : rbac.pc[t] = "done") => (rbac.builds = 1 /\ rbac.seeds = 1)


(***************************************************************************)
(* The per-IP rate limiter (src/server/middleware/ratelimit.go).           *)
(* limiter.store is ipLimiterStore, from the IP to the limiter stored for  *)
(* it; limiter.tokens the tokens left in each limiter that was made (the   *)
(* clock stands still, so no token is added); limiter.req the requests,    *)
(* each a goroutine inside the middleware.                                  *)
(***************************************************************************)
IPs == {"10.0.0.1", "10.0.0.2"}
\* cfg.RateLimit.Burst
Burst == 1

LimiterFrame == UNCHANGED <<data, now, last, calls, stamp, remote, closes, client, engine,
                            jwt, heap, app, rbac, conc>>

\* ipLimiterStore.LoadOrStore that stores the new limiter over the one it finds
LoadOrStoreReplacing(store, ip, lim) ==
    [store |-> [x \in (DOMAIN store) \cup {ip} |-> IF x = ip THEN lim ELSE store[x]],
     actual |-> lim]

\* ipLimiterStore.LoadOrStore(ip, lim): one atomic step of sync.Map
LoadOrStore(store, ip, lim) ==
    IF ip \in DOMAIN store THEN [store |-> store, actual |-> store[ip]]
    ELSE [store |-> [x \in (DOMAIN store) \cup {ip} |-> IF x = ip THEN lim ELSE store[x]],
          actual |-> lim]

\* ip := c.ClientIP(); getOrCreateLimiter: v, ok := ipLimiterStore.Load(ip)
LoadLimiter(t, ip) ==
    /\ limiter.req[t].pc = "idle"
    /\ limiter' = [limiter EXCEPT !.req[t] =
                      IF ip \in DOMAIN limiter.store
                      THEN [@ EXCEPT !.pc = "allow", !.ip = ip, !.got = limiter.store[ip]]
                      ELSE [@ EXCEPT !.pc = "new", !.ip = ip]]
    /\ LimiterFrame

\* lim := rate.NewLimiter(r, burst)
NewLimiter(t) ==
    /\ limiter.req[t].pc = "new"
    /\ limiter' = [limiter EXCEPT !.tokens = Append(@, Burst),
                                  !.req[t].lim = Len(limiter.tokens) + 1,
                                  !.req[t].pc = "store"]
    /\ LimiterFrame

\* actual, _ := ipLimiterStore.LoadOrStore(ip, lim); return actual
StoreLimiter(t) ==
    /\ limiter.req[t].pc = "store"
    /\ LET r == LoadOrStore(limiter.store, limiter.req[t].ip, limiter.req[t].lim) IN
       limiter' = [limiter EXCEPT !.store = r.store,
                                  !.req[t].got = r.actual,
                                  !.req[t].pc = "allow"]
    /\ LimiterFrame

\* limiter.Allow(): one token is taken when there is one
Allow(t) ==
    /\ limiter.req[t].pc = "allow"
    /\ LET l == limiter.req[t].got IN
       limiter' = [limiter EXCEPT !.tokens[l] = IF @ > 0 THEN @ - 1 ELSE @,
                                  !.req[t].allowed = limiter.tokens[l] > 0,
                                  !.req[t].pc = "done"]
    /\ LimiterFrame

NextLimiter ==
    \/ \E t \in Callers, ip \in IPs : LoadLimiter(t, ip)
    \/ \E t \in Callers : NewLimiter(t)
    \/ \E t \in Callers : StoreLimiter(t)
    \/ \E t \in Callers : Allow(t)

SpecLimiter == Init /\ [][NextLimiter]_vars

\* the requests that have received their limiter
Served == {t \in Callers : limiter.req[t].pc \in {"allow", "done"}}
\* the requests that have been let through
Allowed == {t \in Callers : limiter.req[t].pc = "done" /\ limiter.req[t].allowed}

\* C38: requests of one IP receive the same limiter, the one the store holds
\* for that IP, and requests of different IPs receive different limiters; so
\* of the requests of one IP at most Burst are let through while the clock
\* stands still, and a request is refused only when requests of its own IP
\* have taken the tokens.
C38_OneLimiterPerIP ==
    /\ \A t \in Served :
          /\ limiter.req[t].ip \in DOMAIN limiter.store
          /\ limiter.req[t].got = limiter.store[limiter.req[t].ip]
    /\ \A t, u \in Served :
          (limiter.req[t].ip = limiter.req[u].ip) <=> (limiter.req[t].got = limiter.req[u].got)
    /\ \A ip \in IPs : Cardinality({t \in Allowed : limiter.req[t].ip = ip}) <= Burst
    /\ \A t \in Callers :
          (limiter.req[t].pc = "done" /\ ~limiter.req[t].allowed) =>
             Cardinality({u \in Allowed : limiter.req[u].ip = limiter.req[t].ip}) = Burst

\* two requests of one IP both found no limiter and each made one; both have
\* been served, and only one of them was let through
C38_Witness ==
    \E t, u \in Callers :
       /\ t # u
       /\ limiter.req[t].ip = limiter.req[u].ip
       /\ limiter.req[t].lim # 0 /\ limiter.req[u].lim # 0
       /\ limiter.req[t].pc = "done" /\ limiter.req[u].pc = "done"
       /\ limiter.req[t].allowed /\ ~limiter.req[u].allowed

=============================================================================
